---- MODULE Spec2Model ----
(***************************************************************************)
(* zk-kit-mcp: the discovery pipeline (discoverAllPackages), the naming    *)
(* rules (deriveName, inferCategory, deriveCrossLanguageId), the in-memory *)
(* PackageRegistry with the tool handlers that read it, the TTLCache and a *)
(* caching tool handler (search_issues), modelled as state machines.       *)
(*                                                                         *)
(* Strings are sequences of one-character strings, so that lower-casing,   *)
(* prefix stripping, replacing, splitting and substring tests are computed *)
(* as the code computes them.                                              *)
(***************************************************************************)
EXTENDS Integers, Sequences, FiniteSets, TLC

VARIABLES
    listing,      \* discovery: per repository, the state of fetchDirectoryListing
    manifest,     \* discovery: per repository, per listed directory, the state of fetchManifestInfo
    settleOrder,  \* discovery: the manifest fetches <<repo, index>> in the order they settled
    pc,           \* discovery: "running", "resolved" or "rejected" (the promise of discoverAllPackages)
    result,       \* discovery: the sequence discoverAllPackages resolved with
    packages,     \* registry: PackageRegistry.packages
    call,         \* registry: the last query issued (operation and arguments)
    ret,          \* registry: what that query returned
    now,          \* cache: Date.now()
    ttlMs,        \* cache: TTLCache.ttlMs
    store,        \* cache: TTLCache.store, a function from the keys present to their entries
    lastSet,      \* cache: per key, the time and value of the last set since the last clear (history)
    cacheCall,    \* cache: the last operation called, its time and the store it found
    cacheRet,     \* cache: what that operation returned
    calls,        \* tools: the calls of the caching tool in progress: idle, or awaiting the collaborator
    rejectedLast, \* tools: per cache key, whether the last call of the key to end was rejected and none started since (history)
    lastReturn,   \* tools: the response of the last call that returned, and what is remembered of that call
    naming,       \* naming rules: the last call of deriveName or inferCategory and what it returned
    gh            \* githubFetch: the call in progress: its position, round, lastError and the fetches settled so far

vars == <<listing, manifest, settleOrder, pc, result, packages, call, ret,
          now, ttlMs, store, lastSet, cacheCall, cacheRet, calls, rejectedLast,
          lastReturn, gh, naming>>

discoveryVars == <<listing, manifest, settleOrder, pc, result>>
registryVars == <<packages, call, ret>>
cacheVars == <<now, ttlMs, store, lastSet, cacheCall, cacheRet>>
toolVars == <<calls, rejectedLast, lastReturn>>
fetchVars == <<gh>>
namingVars == <<naming>>

----------------------------------------------------------------------------
(* Bounds *)

\* most directories the five listings return in total in one discovery run
MaxTotalDirs == 2
\* most packages a registry content holds
MaxPkgs == 3
\* largest explicit limit passed to suggest
MaxLimit == 2
\* latest time the clock reaches, in milliseconds
MaxNow == 4
\* longest time to live of a cache, in milliseconds
MaxTtl == 2
\* most calls of the caching tool in progress at a time
MaxCalls == 2
\* most hyphen-separated parts of a directory name
MaxNameTokens == 2

----------------------------------------------------------------------------
(* Strings *)

LowerAlpha == <<"a","b","c","d","e","f","g","h","i","j","k","l","m",
                "n","o","p","q","r","s","t","u","v","w","x","y","z">>
UpperAlpha == <<"A","B","C","D","E","F","G","H","I","J","K","L","M",
                "N","O","P","Q","R","S","T","U","V","W","X","Y","Z">>

\* the characters of the model in UTF-16 code unit order
CodeUnitOrder == <<" ", "-", ".", "/", "@">> \o UpperAlpha \o <<"_">> \o LowerAlpha

\* the punctuation of the model in the order of the root collation
CollationPunct == <<" ", "_", "-", ".", "@", "/">>

IndexIn(c, table) == CHOOSE i \in 1..Len(table) : table[i] = c

\* the characters of the model
Chars == {CodeUnitOrder[i] : i \in 1..Len(CodeUnitOrder)}

IsUpper(c) == \E i \in 1..Len(UpperAlpha) : UpperAlpha[i] = c
IsLower(c) == \E i \in 1..Len(LowerAlpha) : LowerAlpha[i] = c

\* the case mappings of the characters, as tables
LowerOf == [c \in Chars |-> IF IsUpper(c) THEN LowerAlpha[IndexIn(c, UpperAlpha)] ELSE c]
UpperOf == [c \in Chars |-> IF IsLower(c) THEN UpperAlpha[IndexIn(c, LowerAlpha)] ELSE c]

ToLowerChar(c) == LowerOf[c]
ToUpperChar(c) == UpperOf[c]

\* String.prototype.toLowerCase / toUpperCase
toLowerCase(s) == [i \in 1..Len(s) |-> ToLowerChar(s[i])]
toUpperCase(s) == [i \in 1..Len(s) |-> ToUpperChar(s[i])]

\* String.prototype.startsWith
StartsWith(s, prefix) ==
    /\ Len(s) >= Len(prefix)
    /\ SubSeq(s, 1, Len(prefix)) = prefix

\* s.replace(/^prefix/, "")
StripPrefix(s, prefix) ==
    IF StartsWith(s, prefix) THEN SubSeq(s, Len(prefix) + 1, Len(s)) ELSE s

\* s.replace(/c/g, d) for single characters c and d
ReplaceAll(s, c, d) == [i \in 1..Len(s) |-> IF s[i] = c THEN d ELSE s[i]]

\* String.prototype.includes
Includes(s, t) ==
    \E i \in 0..(Len(s) - Len(t)) : SubSeq(s, i + 1, i + Len(t)) = t

\* s.split(/\s+/).filter(Boolean): the maximal runs of non-blank characters
RECURSIVE SplitFrom(_, _, _)
SplitFrom(s, i, cur) ==
    IF i > Len(s)
    THEN IF cur = <<>> THEN <<>> ELSE <<cur>>
    ELSE IF s[i] = " "
         THEN (IF cur = <<>> THEN <<>> ELSE <<cur>>) \o SplitFrom(s, i + 1, <<>>)
         ELSE SplitFrom(s, i + 1, Append(cur, s[i]))

SplitTerms(s) == SplitFrom(s, 1, <<>>)

\* the rank of a character among the UTF-16 code units of the model
CodeUnitOf == [c \in Chars |-> IndexIn(c, CodeUnitOrder)]

CodeUnit(c) == CodeUnitOf[c]

\* a < b in the order of the default Array.prototype.sort (UTF-16 code units)
RECURSIVE CodeUnitLess(_, _)
CodeUnitLess(a, b) ==
    IF b = <<>> THEN FALSE
    ELSE IF a = <<>> THEN TRUE
    ELSE IF CodeUnit(Head(a)) # CodeUnit(Head(b))
         THEN CodeUnit(Head(a)) < CodeUnit(Head(b))
         ELSE CodeUnitLess(Tail(a), Tail(b))

\* primary collation weight: punctuation before letters, letters without case
PrimaryWeightOf == [c \in Chars |->
    IF \E i \in 1..Len(CollationPunct) : CollationPunct[i] = c
    THEN IndexIn(c, CollationPunct)
    ELSE Len(CollationPunct) + IndexIn(LowerOf[c], LowerAlpha)]

PrimaryWeight(c) == PrimaryWeightOf[c]

\* tertiary collation weight: lower case before upper case
TertiaryWeight(c) == IF IsUpper(c) THEN 1 ELSE 0

RECURSIVE CompareBy(_, _, _)
CompareBy(W(_), a, b) ==
    IF a = <<>> /\ b = <<>> THEN 0
    ELSE IF a = <<>> THEN -1
    ELSE IF b = <<>> THEN 1
    ELSE IF W(Head(a)) < W(Head(b)) THEN -1
    ELSE IF W(Head(a)) > W(Head(b)) THEN 1
    ELSE CompareBy(W, Tail(a), Tail(b))

\* String.prototype.localeCompare: negative, zero or positive
localeCompare(a, b) ==
    LET primary == CompareBy(PrimaryWeight, a, b)
    IN  IF primary # 0 THEN primary ELSE CompareBy(TertiaryWeight, a, b)

\* Array.prototype.sort with a comparator: a stable sort (insertion of each
\* element after the last element that does not compare greater)
RECURSIVE InsertSorted(_, _, _)
InsertSorted(cmp(_, _), x, sorted) ==
    IF sorted = <<>> THEN <<x>>
    ELSE LET last == sorted[Len(sorted)]
         IN  IF cmp(last, x) <= 0
             THEN Append(sorted, x)
             ELSE Append(InsertSorted(cmp, x, SubSeq(sorted, 1, Len(sorted) - 1)), last)

RECURSIVE SortBy(_, _)
SortBy(cmp(_, _), s) ==
    IF s = <<>> THEN <<>>
    ELSE InsertSorted(cmp, s[Len(s)], SortBy(cmp, SubSeq(s, 1, Len(s) - 1)))

\* Array.prototype.filter
RECURSIVE Filter(_, _)
Filter(keep(_), s) ==
    IF s = <<>> THEN <<>>
    ELSE (IF keep(Head(s)) THEN <<Head(s)>> ELSE <<>>) \o Filter(keep, Tail(s))

Range(s) == {s[i] : i \in 1..Len(s)}

----------------------------------------------------------------------------
(* Types (types.ts) and configuration (config.ts) *)

Language == {"typescript", "circom", "solidity", "noir", "rust"}

Category == {"merkle-trees", "cryptography", "identity", "access-control", "math", "other"}

\* REPOS: one RepoConfig per language, in this order
REPOS == <<
    [slug |-> "zk-kit/zk-kit",          language |-> "typescript", packagePath |-> "packages", branch |-> "main"],
    [slug |-> "zk-kit/zk-kit.circom",   language |-> "circom",     packagePath |-> "packages", branch |-> "main"],
    [slug |-> "zk-kit/zk-kit.solidity", language |-> "solidity",   packagePath |-> "packages", branch |-> "main"],
    [slug |-> "zk-kit/zk-kit.noir",     language |-> "noir",       packagePath |-> "packages", branch |-> "main"],
    [slug |-> "zk-kit/zk-kit.rust",     language |-> "rust",       packagePath |-> "crates",   branch |-> "main"] >>

Repos == 1..Len(REPOS)

Scope == <<"@","z","k","-","k","i","t","/">>
ZkKitPrefix == <<"z","k","-","k","i","t","-">>
CircomSuffix == <<".","c","i","r","c","o","m">>
SolSuffix == <<".","s","o","l">>

DirImt == <<"i","m","t">>
DirLeanImt == <<"l","e","a","n","-","i","m","t">>
DirLeanImtUnderscore == <<"l","e","a","n","_","i","m","t">>
DirExcubiae == <<"e","x","c","u","b","i","a","e">>
DirUtils == <<"u","t","i","l","s">>

\* NAME_OVERRIDES: the literal per-directory overrides of a language
NAME_OVERRIDES == { [language |-> "solidity", dirName |-> DirExcubiae, name |-> Scope \o DirExcubiae] }

\* the properties every object literal inherits from Object.prototype that
\* the model knows: functions, which are no strings
ObjectPrototype == { <<"c","o","n","s","t","r","u","c","t","o","r">>, <<"t","o","S","t","r","i","n","g">> }

\* a function value, as distinct from every text
FunctionValue == << "function" >>

\* NAME_OVERRIDES[language]?.[dirName] (line 410): undefined without a table
\* for the language; else the table's own property, else the inherited one
OverrideOf(language, dirName) ==
    IF ~\E o \in NAME_OVERRIDES : o.language = language THEN <<>>
    ELSE IF \E o \in NAME_OVERRIDES : o.language = language /\ o.dirName = dirName
         THEN << (CHOOSE o \in NAME_OVERRIDES : o.language = language /\ o.dirName = dirName).name >>
         ELSE IF dirName \in ObjectPrototype THEN << FunctionValue >> ELSE <<>>

\* deriveName (lines 409-425)
deriveName(dirName, language) ==
    IF OverrideOf(language, dirName) # <<>>
    THEN OverrideOf(language, dirName)[1]
    ELSE CASE language = "typescript" -> Scope \o dirName
           [] language = "circom"     -> Scope \o dirName \o CircomSuffix
           [] language = "solidity"   -> Scope \o dirName \o SolSuffix
           [] language = "noir"       -> ReplaceAll(dirName, "-", "_")
           [] language = "rust"       -> ZkKitPrefix \o dirName

\* kw occurs anywhere in s
MatchesSubstring(s, kw) == Includes(s, kw)

\* /(?:^|-)kw(?:-|$)/ : kw occurs in s between hyphens or the ends of s
MatchesToken(s, kw) ==
    \E i \in 0..(Len(s) - Len(kw)) :
        /\ SubSeq(s, i + 1, i + Len(kw)) = kw
        /\ (i = 0 \/ s[i] = "-")
        /\ (i + Len(kw) = Len(s) \/ s[i + Len(kw) + 1] = "-")

\* CATEGORY_RULES: the ordered rules, each the alternatives of its pattern
CATEGORY_RULES == <<
    [keywords |-> { <<"i","m","t">>, <<"m","e","r","k","l","e">>, <<"s","m","t">>, <<"p","m","t">> },
     category |-> "merkle-trees"],
    [keywords |-> { <<"e","d","d","s","a">>, <<"e","c","d","h">>, <<"p","o","s","e","i","d","o","n">>,
                    <<"b","a","b","y","j","u","b","j","u","b">>,
                    <<"b","a","b","y","-","j","u","b","j","u","b">> },
     category |-> "cryptography"],
    [keywords |-> { <<"e","x","c","u","b","i","a","e">> },
     category |-> "access-control"],
    [keywords |-> { <<"s","e","m","a","p","h","o","r","e">>, <<"r","l","n">>,
                    <<"i","d","e","n","t","i","t","y">> },
     category |-> "identity"],
    [keywords |-> { <<"u","t","i","l","s">>, <<"m","a","t","h">> },
     category |-> "math"] >>

RuleMatches(rule, dirName) == \E kw \in rule.keywords : MatchesToken(dirName, kw)

inferCategory(dirName) ==
    IF \E i \in 1..Len(CATEGORY_RULES) : RuleMatches(CATEGORY_RULES[i], dirName)
    THEN LET first == CHOOSE i \in 1..Len(CATEGORY_RULES) :
                          /\ RuleMatches(CATEGORY_RULES[i], dirName)
                          /\ \A j \in 1..(i - 1) : ~RuleMatches(CATEGORY_RULES[j], dirName)
         IN  CATEGORY_RULES[first].category
    ELSE "other"

deriveCrossLanguageId(dirName) == dirName

----------------------------------------------------------------------------
(* The naming rules applied to directory names (config.ts) *)

\* the hyphen-free parts that the directory names of the model are made of
NameTokens == { <<"i","m","t">>, <<"c","o","m","m","i","t","m","e","n","t">>, <<"s","m","t","p">>, <<"e","d","d","s","a">>, <<"e","x","c","u","b","i","a","e">>, <<"s","e","m","a","p","h","o","r","e">>, <<"u","t","i","l","s">>,
                <<"b","a","b","y">>, <<"j","u","b","j","u","b">>, <<"b","a","b","y","j","u","b","j","u","b">>, <<"c","o","n","s","t","r","u","c","t","o","r">> }

\* parts joined with "-"
RECURSIVE JoinTokens(_)
JoinTokens(ts) ==
    IF Len(ts) = 1 THEN ts[1] ELSE ts[1] \o <<"-">> \o JoinTokens(Tail(ts))

\* the directory names: up to MaxNameTokens parts
DirNames == { JoinTokens(ts) : ts \in UNION { [1..k -> NameTokens] : k \in 1..MaxNameTokens } }

InitNaming == naming = [op |-> "none"]

\* inferCategory(dirName) is called and returns
InferCategory(dirName) ==
    /\ naming.op = "none"
    /\ naming' = [op |-> "inferCategory", dirName |-> dirName, ret |-> inferCategory(dirName)]

\* deriveName(dirName, language) is called and returns
DeriveName(dirName, language) ==
    /\ naming.op = "none"
    /\ naming' = [op |-> "deriveName", dirName |-> dirName, language |-> language,
                  ret |-> deriveName(dirName, language)]

\* the caller has taken the value
NamingReturns ==
    /\ naming.op # "none"
    /\ naming' = [op |-> "none"]

NextNaming ==
    \/ \E dirName \in DirNames : InferCategory(dirName)
    \/ \E dirName \in DirNames, language \in Language : DeriveName(dirName, language)
    \/ NamingReturns

----------------------------------------------------------------------------
(* Discovery pipeline (discovery.ts) *)

LANGUAGE_ORDER == [l \in Language |->
    CASE l = "typescript" -> 0
      [] l = "circom"     -> 1
      [] l = "solidity"   -> 2
      [] l = "noir"       -> 3
      [] l = "rust"       -> 4]

\* the directory names a listing may return
DirPool == { DirLeanImt, DirLeanImtUnderscore }

\* the manifests fetchManifestInfo may resolve with
\* (an absent version is the empty string)
ManifestPool == {
    [description |-> <<>>, version |-> <<>>, zkKitDependencies |-> <<>>],
    [description |-> <<"I","M","T">>, version |-> <<"1">>, zkKitDependencies |-> <<DirImt>>] }

NoManifest == [description |-> <<>>, version |-> <<>>, zkKitDependencies |-> <<>>]

\* the Package built at lines 71-82 (repo and installCommand, two rendered
\* strings that no query reads, are left out)
MkPackage(dirName, language, m) ==
    [ name              |-> deriveName(dirName, language),
      dirName           |-> dirName,
      language          |-> language,
      category          |-> inferCategory(dirName),
      description       |-> m.description,
      crossLanguageId   |-> deriveCrossLanguageId(dirName),
      version           |-> m.version,
      zkKitDependencies |-> m.zkKitDependencies ]

\* sequences of distinct elements of S of length at most n
InjectiveSeqs(S, n) ==
    UNION { { s \in [1..k -> S] : \A i, j \in 1..k : i # j => s[i] # s[j] } : k \in 0..n }

RECURSIVE SumLen(_, _)
SumLen(f, n) == IF n = 0 THEN 0 ELSE Len(f[n]) + SumLen(f, n - 1)

\* directories listed so far, over all repositories
TotalDirs == SumLen(manifest, Len(REPOS))

InitDiscovery ==
    /\ listing = [r \in Repos |-> [status |-> "pending", dirs |-> <<>>]]
    /\ manifest = [r \in Repos |-> <<>>]
    /\ settleOrder = <<>>
    /\ pc = "running"
    /\ result = <<>>

\* fetchDirectoryListing of repository r resolves with dirs; the callback
\* then starts one manifest fetch per directory (lines 66-70)
ListingResolves(r, dirs) ==
    /\ pc = "running"
    /\ listing[r].status = "pending"
    /\ TotalDirs + Len(dirs) <= MaxTotalDirs
    /\ listing' = [listing EXCEPT ![r] = [status |-> "fulfilled", dirs |-> dirs]]
    /\ manifest' = [manifest EXCEPT ![r] =
                        [j \in 1..Len(dirs) |-> [status |-> "pending", value |-> NoManifest]]]
    /\ UNCHANGED <<settleOrder, pc, result>>

\* fetchDirectoryListing of repository r rejects: the callback of r rejects
ListingRejects(r) ==
    /\ pc = "running"
    /\ listing[r].status = "pending"
    /\ listing' = [listing EXCEPT ![r] = [status |-> "rejected", dirs |-> <<>>]]
    /\ UNCHANGED <<manifest, settleOrder, pc, result>>

\* fetchManifestInfo of directory j of repository r resolves with m
ManifestResolves(r, j, m) ==
    /\ pc = "running"
    /\ j \in 1..Len(manifest[r])
    /\ manifest[r][j].status = "pending"
    /\ manifest' = [manifest EXCEPT ![r][j] = [status |-> "fulfilled", value |-> m]]
    /\ settleOrder' = Append(settleOrder, <<r, j>>)
    /\ UNCHANGED <<listing, pc, result>>

\* fetchManifestInfo of directory j of repository r rejects
ManifestRejects(r, j) ==
    /\ pc = "running"
    /\ j \in 1..Len(manifest[r])
    /\ manifest[r][j].status = "pending"
    /\ manifest' = [manifest EXCEPT ![r][j] = [status |-> "rejected", value |-> NoManifest]]
    /\ settleOrder' = Append(settleOrder, <<r, j>>)
    /\ UNCHANGED <<listing, pc, result>>

\* await Promise.all(tasks) in the place of Promise.allSettled: rejected as
\* soon as one outcome is rejected
AwaitAll(outcomes) ==
    IF \E i \in DOMAIN outcomes : outcomes[i].status = "rejected"
    THEN [status |-> "rejected", value |-> <<>>]
    ELSE [status |-> "fulfilled", value |-> outcomes]

\* await Promise.allSettled(tasks): fulfilled with every outcome, in the
\* order of the tasks, whatever the outcomes are
AwaitAllSettled(outcomes) == [status |-> "fulfilled", value |-> outcomes]

\* the loop of lines 86-93 leaving at the first rejected manifest fetch
RECURSIVE PackagesUntilRejected(_, _, _)
PackagesUntilRejected(r, settled, j) ==
    IF j > Len(settled) \/ settled[j].status # "fulfilled" THEN <<>>
    ELSE <<MkPackage(listing[r].dirs[j], REPOS[r].language, settled[j].value)>>
         \o PackagesUntilRejected(r, settled, j + 1)

\* the packages of r pushed as their manifest fetches settle, not by index
RECURSIVE PackagesInSettleOrder(_, _, _)
PackagesInSettleOrder(r, settled, k) ==
    IF k > Len(settleOrder) THEN <<>>
    ELSE LET e == settleOrder[k]
         IN  (IF e[1] = r /\ settled[e[2]].status = "fulfilled"
              THEN <<MkPackage(listing[r].dirs[e[2]], REPOS[r].language, settled[e[2]].value)>>
              ELSE <<>>) \o PackagesInSettleOrder(r, settled, k + 1)

\* lines 85-94: the packages of the fulfilled manifest fetches of r, by index
RECURSIVE PackagesFrom(_, _, _)
PackagesFrom(r, settled, j) ==
    IF j > Len(settled) THEN <<>>
    ELSE (IF settled[j].status = "fulfilled"
          THEN <<MkPackage(listing[r].dirs[j], REPOS[r].language, settled[j].value)>>
          ELSE <<>>) \o PackagesFrom(r, settled, j + 1)

\* the outcome of the callback of repository r (lines 65-95)
RepoOutcome(r) ==
    IF listing[r].status = "rejected"
    THEN [status |-> "rejected", value |-> <<>>]
    ELSE LET settled == AwaitAllSettled(manifest[r])
         IN  IF settled.status = "rejected"
             THEN [status |-> "rejected", value |-> <<>>]
             ELSE [status |-> "fulfilled", value |-> PackagesFrom(r, settled.value, 1)]

\* lines 98-110: the values of the fulfilled repository outcomes, by index
RECURSIVE AllPackages(_, _)
AllPackages(results, i) ==
    IF i > Len(results) THEN <<>>
    ELSE (IF results[i].status = "fulfilled" THEN results[i].value ELSE <<>>)
         \o AllPackages(results, i + 1)

\* the comparator of lines 112-116
DiscoveryCompare(a, b) ==
    LET langDiff == LANGUAGE_ORDER[a.language] - LANGUAGE_ORDER[b.language]
    IN  IF langDiff # 0 THEN langDiff ELSE localeCompare(a.name, b.name)

AllSettled ==
    \A r \in Repos :
        /\ listing[r].status # "pending"
        /\ \A j \in 1..Len(manifest[r]) : manifest[r][j].status # "pending"

\* every fetch has settled: discoverAllPackages runs to its return
\* (lines 85-118)
DiscoveryReturns ==
    /\ pc = "running"
    /\ AllSettled
    /\ LET results == AwaitAllSettled([r \in Repos |-> RepoOutcome(r)])
       IN  IF results.status = "rejected"
           THEN /\ pc' = "rejected"
                /\ result' = <<>>
           ELSE /\ pc' = "resolved"
                /\ result' = SortBy(DiscoveryCompare, AllPackages(results.value, 1))
    /\ UNCHANGED <<listing, manifest, settleOrder>>

NextDiscovery ==
    \/ \E r \in Repos, dirs \in InjectiveSeqs(DirPool, MaxTotalDirs) : ListingResolves(r, dirs)
    \/ \E r \in Repos : ListingRejects(r)
    \/ \E r \in Repos, j \in 1..MaxTotalDirs, m \in ManifestPool : ManifestResolves(r, j, m)
    \/ \E r \in Repos, j \in 1..MaxTotalDirs : ManifestRejects(r, j)
    \/ DiscoveryReturns

----------------------------------------------------------------------------
(* Package registry (registry.ts) *)

\* the packages a registry content is made of: what lines 71-82 of the
\* discovery build for these directories, languages and manifests
Catalog == {
    MkPackage(DirLeanImt, "typescript",
              [description |-> <<"L","e","a","n"," ","I","M","T">>, version |-> <<"1">>,
               zkKitDependencies |-> <<DirImt>>]),
    MkPackage(DirLeanImt, "solidity",
              [description |-> <<>>, version |-> <<>>, zkKitDependencies |-> <<DirImt>>]),
    MkPackage(DirLeanImt, "noir", NoManifest),
    MkPackage(DirImt, "typescript",
              [description |-> <<>>, version |-> <<>>, zkKitDependencies |-> <<DirUtils>>]),
    MkPackage(DirImt, "noir", NoManifest),
    MkPackage(DirExcubiae, "solidity",
              [description |-> <<"I","M","T">>, version |-> <<>>, zkKitDependencies |-> <<>>]),
    MkPackage(DirLeanImtUnderscore, "noir",
              [description |-> <<>>, version |-> <<>>, zkKitDependencies |-> <<DirImt>>]) }

\* the registry contents: every sequence of at most MaxPkgs distinct
\* catalog packages, in any order
RegistryContents == InjectiveSeqs(Catalog, MaxPkgs)

\* Array.prototype.find: the first element satisfying test, if any
\* (undefined is the empty sequence, a found element a sequence of one)
RECURSIVE Find(_, _)
Find(test(_), s) ==
    IF s = <<>> THEN <<>>
    ELSE IF test(Head(s)) THEN <<Head(s)>> ELSE Find(test, Tail(s))

\* getByName without its third step, the match by dirName
getByNameWithoutDirName(pkgs, name) ==
    LET lower == toLowerCase(name)
        exact == Find(LAMBDA p : toLowerCase(p.name) = lower, pkgs)
        stripped == Find(LAMBDA p : StripPrefix(toLowerCase(p.name), Scope) = lower, pkgs)
        normalized == ReplaceAll(lower, "_", "-")
        withoutPrefix == StripPrefix(normalized, ZkKitPrefix)
        byNormalized == Find(LAMBDA p : \/ toLowerCase(p.dirName) = withoutPrefix
                                        \/ toLowerCase(p.dirName) = normalized, pkgs)
    IN  IF exact # <<>> THEN exact
        ELSE IF stripped # <<>> THEN stripped
        ELSE IF (normalized # lower \/ withoutPrefix # normalized) /\ byNormalized # <<>>
             THEN byNormalized
        ELSE <<>>

\* getByName trying the match by dirName before the match without scope
getByNameDirNameFirst(pkgs, name) ==
    LET lower == toLowerCase(name)
        exact == Find(LAMBDA p : toLowerCase(p.name) = lower, pkgs)
        stripped == Find(LAMBDA p : StripPrefix(toLowerCase(p.name), Scope) = lower, pkgs)
        byDir == Find(LAMBDA p : toLowerCase(p.dirName) = lower, pkgs)
        normalized == ReplaceAll(lower, "_", "-")
        withoutPrefix == StripPrefix(normalized, ZkKitPrefix)
        byNormalized == Find(LAMBDA p : \/ toLowerCase(p.dirName) = withoutPrefix
                                        \/ toLowerCase(p.dirName) = normalized, pkgs)
    IN  IF exact # <<>> THEN exact
        ELSE IF byDir # <<>> THEN byDir
        ELSE IF stripped # <<>> THEN stripped
        ELSE IF (normalized # lower \/ withoutPrefix # normalized) /\ byNormalized # <<>>
             THEN byNormalized
        ELSE <<>>

\* getByName whose normalized step does not strip the zk-kit- prefix
getByNameKeepingPrefix(pkgs, name) ==
    LET lower == toLowerCase(name)
        exact == Find(LAMBDA p : toLowerCase(p.name) = lower, pkgs)
        stripped == Find(LAMBDA p : StripPrefix(toLowerCase(p.name), Scope) = lower, pkgs)
        byDir == Find(LAMBDA p : toLowerCase(p.dirName) = lower, pkgs)
        normalized == ReplaceAll(lower, "_", "-")
        byNormalized == Find(LAMBDA p : toLowerCase(p.dirName) = normalized, pkgs)
    IN  IF exact # <<>> THEN exact
        ELSE IF stripped # <<>> THEN stripped
        ELSE IF byDir # <<>> THEN byDir
        ELSE IF normalized # lower /\ byNormalized # <<>> THEN byNormalized
        ELSE <<>>

getByName(pkgs, name) ==
    LET lower == toLowerCase(name)
        exact == Find(LAMBDA p : toLowerCase(p.name) = lower, pkgs)
        stripped == Find(LAMBDA p : StripPrefix(toLowerCase(p.name), Scope) = lower, pkgs)
        byDir == Find(LAMBDA p : toLowerCase(p.dirName) = lower, pkgs)
        normalized == ReplaceAll(lower, "_", "-")
        withoutPrefix == StripPrefix(normalized, ZkKitPrefix)
        byNormalized == Find(LAMBDA p : \/ toLowerCase(p.dirName) = withoutPrefix
                                        \/ toLowerCase(p.dirName) = normalized, pkgs)
    IN  IF exact # <<>> THEN exact
        ELSE IF stripped # <<>> THEN stripped
        ELSE IF byDir # <<>> THEN byDir
        ELSE IF (normalized # lower \/ withoutPrefix # normalized) /\ byNormalized # <<>>
             THEN byNormalized
        ELSE <<>>

\* the default value of the parameter limit of suggest
DefaultLimit == 5

\* Array.prototype.every over the terms
Every(test(_), s) == \A i \in 1..Len(s) : test(s[i])

\* Array.prototype.slice(0, limit) for limit >= 0
SliceTo(s, limit) == SubSeq(s, 1, IF limit < Len(s) THEN limit ELSE Len(s))

\* suggest with terms.some in the place of terms.every
suggestAnyTerm(pkgs, name, limit) ==
    LET terms == SplitTerms(toLowerCase(name))
        qualifies(p) ==
            LET nameLower == toLowerCase(p.name)
                dirLower == toLowerCase(p.dirName)
            IN  \E i \in 1..Len(terms) :
                    Includes(nameLower, terms[i]) \/ Includes(dirLower, terms[i])
    IN  SliceTo(Filter(qualifies, pkgs), limit)

suggest(pkgs, name, limit) ==
    LET terms == SplitTerms(toLowerCase(name))
        qualifies(p) ==
            LET nameLower == toLowerCase(p.name)
                dirLower == toLowerCase(p.dirName)
            IN  Every(LAMBDA term : Includes(nameLower, term) \/ Includes(dirLower, term), terms)
    IN  SliceTo(Filter(qualifies, pkgs), limit)

\* an absent (or empty, hence falsy) language or category argument of search
Absent == ""

\* an absent (or empty, hence falsy) query argument of search
NoQuery == <<>>

\* the score of one term for package p (lines 76-79)
TermScore(p, term) ==
    (IF Includes(toLowerCase(p.name), term) THEN 3 ELSE 0)
    + (IF Includes(toLowerCase(p.dirName), term) THEN 2 ELSE 0)
    + (IF Includes(toLowerCase(p.description), term) THEN 1 ELSE 0)

\* the loop of lines 74-83: 0 as soon as a term scores 0, else the sum
RECURSIVE ScoreFrom(_, _, _, _)
ScoreFrom(p, terms, i, score) ==
    IF i > Len(terms) THEN score
    ELSE IF TermScore(p, terms[i]) = 0 THEN 0
    ELSE ScoreFrom(p, terms, i + 1, score + TermScore(p, terms[i]))

Score(p, terms) == ScoreFrom(p, terms, 1, 0)

\* the comparator of line 86 with its operands exchanged
ScoreCompareAscending(a, b) == a.score - b.score

\* the comparator of line 86
ScoreCompare(a, b) == b.score - a.score

search(pkgs, query, language, category) ==
    LET byLanguage == IF language # Absent
                      THEN Filter(LAMBDA p : p.language = language, pkgs)
                      ELSE pkgs
        byCategory == IF category # Absent
                      THEN Filter(LAMBDA p : p.category = category, byLanguage)
                      ELSE byLanguage
        terms == SplitTerms(toLowerCase(query))
        scored == [i \in 1..Len(byCategory) |->
                      [pkg |-> byCategory[i], score |-> Score(byCategory[i], terms)]]
        ranked == SortBy(ScoreCompare, Filter(LAMBDA r : r.score > 0, scored))
    IN  IF query # NoQuery
        THEN [i \in 1..Len(ranked) |-> ranked[i].pkg]
        ELSE byCategory

\* Map.get(k) of a map of sets, the empty set standing for a missing key
\* (the code reads only the size of a missing entry, as 0)
MapGet(map, k) == IF k \in DOMAIN map THEN map[k] ELSE {}

\* Map.set(k, v)
MapSet(map, k, v) == [x \in (DOMAIN map) \cup {k} |-> IF x = k THEN v ELSE map[x]]

\* the maps of getDependencyGraph before its loop (lines 297-299)
EmptyGraph == [dependsOn |-> <<>>, dependedBy |-> <<>>, allConcepts |-> {}]

\* the inner loop without line 310: a dependency is no concept of its own
RECURSIVE AddDepsWithoutDependencyNodes(_, _, _)
AddDepsWithoutDependencyNodes(g, pkg, i) ==
    IF i > Len(pkg.zkKitDependencies) THEN g
    ELSE LET id == pkg.crossLanguageId
             dep == pkg.zkKitDependencies[i]
         IN  AddDepsWithoutDependencyNodes(
                 [dependsOn   |-> MapSet(g.dependsOn, id, MapGet(g.dependsOn, id) \cup {dep}),
                  dependedBy  |-> MapSet(g.dependedBy, dep, MapGet(g.dependedBy, dep) \cup {id}),
                  allConcepts |-> g.allConcepts],
                 pkg, i + 1)

\* the inner loop of lines 306-311 from dependency i of pkg on
RECURSIVE AddDeps(_, _, _)
AddDeps(g, pkg, i) ==
    IF i > Len(pkg.zkKitDependencies) THEN g
    ELSE LET id == pkg.crossLanguageId
             dep == pkg.zkKitDependencies[i]
         IN  AddDeps([dependsOn   |-> MapSet(g.dependsOn, id, MapGet(g.dependsOn, id) \cup {dep}),
                      dependedBy  |-> MapSet(g.dependedBy, dep, MapGet(g.dependedBy, dep) \cup {id}),
                      allConcepts |-> g.allConcepts \cup {dep}],
                     pkg, i + 1)

\* the loop of lines 301-312 from package i on
RECURSIVE BuildGraph(_, _, _)
BuildGraph(g, pkgs, i) ==
    IF i > Len(pkgs) THEN g
    ELSE LET id == pkgs[i].crossLanguageId
             g1 == [dependsOn   |-> IF id \in DOMAIN g.dependsOn
                                    THEN g.dependsOn ELSE MapSet(g.dependsOn, id, {}),
                    dependedBy  |-> g.dependedBy,
                    allConcepts |-> g.allConcepts \cup {id}]
         IN  BuildGraph(AddDeps(g1, pkgs[i], 1), pkgs, i + 1)

\* [...set].sort(): the strings of S in UTF-16 code unit order
RECURSIVE SortedStrings(_)
SortedStrings(S) ==
    IF S = {} THEN <<>>
    ELSE LET least == CHOOSE x \in S : \A y \in S \ {x} : CodeUnitLess(x, y)
         IN  <<least>> \o SortedStrings(S \ {least})

\* the classification with the two tests of lines 323-326 exchanged
ClassifyLeafFirst(deps, usedBy) ==
    IF deps > 0 THEN "leaf"
    ELSE IF usedBy > 0 THEN "foundational"
    ELSE "independent"

\* the class of a concept from its two degrees (lines 323-329)
Classify(deps, usedBy) ==
    IF usedBy > 0 THEN "foundational"
    ELSE IF deps > 0 THEN "leaf"
    ELSE "independent"

\* [...new Set(packages.filter(p => p.crossLanguageId = c).map(p => p.language))]
RECURSIVE LanguagesOf(_, _, _)
LanguagesOf(pkgs, c, seen) ==
    IF pkgs = <<>> THEN <<>>
    ELSE IF Head(pkgs).crossLanguageId = c /\ Head(pkgs).language \notin seen
         THEN <<Head(pkgs).language>> \o LanguagesOf(Tail(pkgs), c, seen \cup {Head(pkgs).language})
         ELSE LanguagesOf(Tail(pkgs), c, seen)

\* the number of entries of the map
SumSizesCountingEntries(map, keys) == Cardinality(keys)

\* [...map.values()].reduce((sum, s) => sum + s.size, 0) (line 335)
RECURSIVE SumSizes(_, _)
SumSizes(map, keys) ==
    IF keys = {} THEN 0
    ELSE LET k == CHOOSE x \in keys : TRUE
         IN  Cardinality(map[k]) + SumSizes(map, keys \ {k})

\* the report of getDependencyGraph as the data it renders: the sentinel
\* flag, the two numbers of the summary line and the entries of the three
\* sections, each with its annotations
getDependencyGraph(pkgs) ==
    IF Len(pkgs) = 0
    THEN [sentinel |-> TRUE, concepts |-> 0, totalDeps |-> 0,
          foundational |-> <<>>, leaf |-> <<>>, independent |-> <<>>]
    ELSE LET g == BuildGraph(EmptyGraph, pkgs, 1)
             sorted == SortedStrings(g.allConcepts)
             class(c) == Classify(Cardinality(MapGet(g.dependsOn, c)),
                                  Cardinality(MapGet(g.dependedBy, c)))
             entry(c) == [concept   |-> c,
                          languages |-> LanguagesOf(pkgs, c, {}),
                          usedBy    |-> SortedStrings(MapGet(g.dependedBy, c)),
                          dependsOn |-> SortedStrings(MapGet(g.dependsOn, c))]
             section(name) ==
                 LET members == Filter(LAMBDA c : class(c) = name, sorted)
                 IN  [i \in 1..Len(members) |-> entry(members[i])]
         IN  [sentinel     |-> FALSE,
              concepts     |-> Cardinality(g.allConcepts),
              totalDeps    |-> SumSizes(g.dependsOn, DOMAIN g.dependsOn),
              foundational |-> section("foundational"),
              leaf         |-> section("leaf"),
              independent  |-> section("independent")]

\* the loop of lines 248-256 from package i on, with one entry per package:
\* the test of line 250 for an existing entry of the concept left out
RECURSIVE DependentsPerPackage(_, _, _, _)
DependentsPerPackage(pkgs, id, i, acc) ==
    IF i > Len(pkgs) THEN acc
    ELSE IF ~(\E k \in 1..Len(pkgs[i].zkKitDependencies) : pkgs[i].zkKitDependencies[k] = id)
         THEN DependentsPerPackage(pkgs, id, i + 1, acc)
         ELSE DependentsPerPackage(pkgs, id, i + 1,
                  Append(acc, [concept |-> pkgs[i].crossLanguageId,
                               languages |-> <<pkgs[i].language>>]))

\* the loop of lines 248-256 from package i on: the dependents of id, one
\* entry per concept in the order of its first package, each with the
\* languages of its packages that name id, in registry order
RECURSIVE Dependents(_, _, _, _)
Dependents(pkgs, id, i, acc) ==
    IF i > Len(pkgs) THEN acc
    ELSE IF ~(\E k \in 1..Len(pkgs[i].zkKitDependencies) : pkgs[i].zkKitDependencies[k] = id)
         THEN Dependents(pkgs, id, i + 1, acc)
         ELSE LET existing == { e \in 1..Len(acc) : acc[e].concept = pkgs[i].crossLanguageId }
              IN  IF existing # {}
                  THEN LET e == CHOOSE x \in existing : \A y \in existing : x <= y
                       IN  IF pkgs[i].language \in Range(acc[e].languages)
                           THEN Dependents(pkgs, id, i + 1, acc)
                           ELSE Dependents(pkgs, id, i + 1,
                                    [acc EXCEPT ![e].languages = Append(@, pkgs[i].language)])
                  ELSE Dependents(pkgs, id, i + 1,
                           Append(acc, [concept |-> pkgs[i].crossLanguageId,
                                        languages |-> <<pkgs[i].language>>]))

\* the dependencies of the first package of the concept only
DirectDepsOfFirstPackage(pkgs, id) ==
    LET of == { k \in 1..Len(pkgs) : pkgs[k].crossLanguageId = id }
    IN  IF of = {} THEN {}
        ELSE Range(pkgs[CHOOSE k \in of : \A m \in of : k <= m].zkKitDependencies)

\* the loop of lines 257-261: the dependencies of the packages of id
DirectDeps(pkgs, id) ==
    UNION { Range(pkgs[i].zkKitDependencies) :
            i \in { k \in 1..Len(pkgs) : pkgs[k].crossLanguageId = id } }

\* the comparator of line 281
DependentCompare(a, b) == localeCompare(a.concept, b.concept)

\* the report of getReverseDependencies as the data it renders: the languages
\* of the "Available in" line, the entries of "Depends On" (the section is
\* rendered iff there is one), whether "Depended On By" is rendered, its
\* entries, the N of "N package(s)" and whether the sentence "No other
\* ZK-Kit packages depend on id" is rendered; the method has no test for the
\* empty registry, so the sentinel is never returned
getReverseDependencies(pkgs, id) ==
    LET dependents == Dependents(pkgs, id, 1, <<>>)
        directDeps == SortedStrings(DirectDeps(pkgs, id))
    IN  [sentinel       |-> FALSE,
         id             |-> id,
         availableIn    |-> LanguagesOf(pkgs, id, {}),
         dependsOn      |-> [i \in 1..Len(directDeps) |->
                                [concept |-> directDeps[i],
                                 languages |-> LanguagesOf(pkgs, directDeps[i], {})]],
         dependedOnBySection |-> Len(dependents) > 0,
         dependedOnBy   |-> IF Len(dependents) > 0
                            THEN SortBy(DependentCompare, dependents) ELSE <<>>,
         count          |-> Len(dependents),
         noDependentsSentence |-> ~(Len(dependents) > 0)]

\* the place of a language name in the default order of Array.prototype.sort
\* (UTF-16 code units: the alphabetical order of these lower-case names)
LanguageSortOrder == <<"circom", "noir", "rust", "solidity", "typescript">>

\* [...new Set(packages.map(p => p.language))].sort() (line 193)
SortedLanguages(pkgs) ==
    LET present == { pkgs[i].language : i \in 1..Len(pkgs) }
        kept == { i \in 1..Len(LanguageSortOrder) : LanguageSortOrder[i] \in present }
        nth[n \in 0..Len(LanguageSortOrder)] ==
            IF n = 0 THEN <<>>
            ELSE IF n \in kept THEN Append(nth[n - 1], LanguageSortOrder[n]) ELSE nth[n - 1]
    IN  nth[Len(LanguageSortOrder)]

\* conceptMap of lines 194-199: for each crossLanguageId the set of the
\* languages of its packages
ConceptMap(pkgs) ==
    [c \in { pkgs[i].crossLanguageId : i \in 1..Len(pkgs) } |->
        { pkgs[i].language : i \in { k \in 1..Len(pkgs) : pkgs[k].crossLanguageId = c } }]

\* gapCount with one gap counted per concept that misses a language
RECURSIVE GapCountOnePerConcept(_, _, _, _)
GapCountOnePerConcept(conceptMap, concepts, nLanguages, i) ==
    IF i > Len(concepts) THEN 0
    ELSE (IF Cardinality(conceptMap[concepts[i]]) < nLanguages THEN 1 ELSE 0)
         + GapCountOnePerConcept(conceptMap, concepts, nLanguages, i + 1)

\* gapCount of lines 209-216, summed over the concepts from i on
RECURSIVE GapCount(_, _, _, _)
GapCount(conceptMap, concepts, nLanguages, i) ==
    IF i > Len(concepts) THEN 0
    ELSE (nLanguages - Cardinality(conceptMap[concepts[i]]))
         + GapCount(conceptMap, concepts, nLanguages, i + 1)

\* the value "No packages available." of lines 202 and 294
NoPackagesAvailable == [sentinel |-> TRUE]

\* the quotient 0 / 0, which is no number (a number n is written <<n>>)
NaN == <<>>

\* ((1 - gapCount / totalSlots) * 100).toFixed(0) of line 219: the percentage
\* of filled slots rounded to the nearest integer, a half rounded up; the
\* quotient of 0 by 0 slots is NaN
Coverage(gapCount, totalSlots) ==
    IF totalSlots = 0 THEN NaN
    ELSE << (200 * (totalSlots - gapCount) + totalSlots) \div (2 * totalSlots) >>

\* the matrix of lines 204-240 as the data it renders: the header languages,
\* one row per concept with its cells, the numbers of the summary line and
\* the entries of the two closing sections (each rendered iff not empty)
CoverageMatrix(pkgs) ==
    LET languages  == SortedLanguages(pkgs)
        conceptMap == ConceptMap(pkgs)
        concepts   == SortedStrings(DOMAIN conceptMap)
        gapCount   == GapCount(conceptMap, concepts, Len(languages), 1)
        totalSlots == Len(concepts) * Len(languages)
        entry(c)   == [concept |-> c, languages |-> LanguagesOf(pkgs, c, {})]
        multiLang  == Filter(LAMBDA c : Cardinality(conceptMap[c]) > 1, concepts)
        singleLang == Filter(LAMBDA c : Cardinality(conceptMap[c]) = 1, concepts)
    IN  [sentinel   |-> FALSE,
         languages  |-> languages,
         rows       |-> [i \in 1..Len(concepts) |->
                            [concept |-> concepts[i],
                             cells   |-> [j \in 1..Len(languages) |->
                                             IF languages[j] \in conceptMap[concepts[i]]
                                             THEN "yes" ELSE "-"]]],
         concepts   |-> Len(concepts),
         gapCount   |-> gapCount,
         totalSlots |-> totalSlots,
         coverage   |-> Coverage(gapCount, totalSlots),
         filled     |-> totalSlots - gapCount,
         multiLang  |-> [i \in 1..Len(multiLang) |-> entry(multiLang[i])],
         singleLang |-> [i \in 1..Len(singleLang) |-> entry(singleLang[i])]]

\* getCrossLanguageCoverage without the test of line 202
getCrossLanguageCoverageUnguarded(pkgs) == CoverageMatrix(pkgs)

getCrossLanguageCoverage(pkgs) ==
    IF Cardinality({ pkgs[i].crossLanguageId : i \in 1..Len(pkgs) }) = 0
    THEN NoPackagesAvailable
    ELSE CoverageMatrix(pkgs)

\* the loop of lines 97-104 from name i on: the packages found, in the order
\* of the names
RECURSIVE FoundFrom(_, _, _)
FoundFrom(pkgs, names, i) ==
    IF i > Len(names) THEN <<>>
    ELSE getByName(pkgs, names[i]) \o FoundFrom(pkgs, names, i + 1)

\* the loop of lines 97-104 from name i on: the names that resolve to nothing
RECURSIVE NotFoundFrom(_, _, _)
NotFoundFrom(pkgs, names, i) ==
    IF i > Len(names) THEN <<>>
    ELSE (IF getByName(pkgs, names[i]) = <<>> THEN <<names[i]>> ELSE <<>>)
         \o NotFoundFrom(pkgs, names, i + 1)

\* value || "-" of lines 114 and 115
Dash == <<"-">>
OrDash(value) == IF value = <<>> THEN Dash ELSE value

\* lines 125-128: the packages of a crossLanguageId of a found package whose
\* name is the name of no found package
Variants(pkgs, found) ==
    LET crossIds == { found[i].crossLanguageId : i \in 1..Len(found) }
    IN  Filter(LAMBDA p : /\ p.crossLanguageId \in crossIds
                          /\ ~(\E i \in 1..Len(found) : found[i].name = p.name),
               pkgs)

\* compare without the test of line 106: the table is rendered, with no
\* column, also when no name resolves
compareWithoutNoneFound(pkgs, names) ==
    LET found    == FoundFrom(pkgs, names, 1)
        variants == Variants(pkgs, found)
    IN  [noneFound |-> FALSE,
         names     |-> names,
         columns   |-> [i \in 1..Len(found) |->
                           [name |-> found[i].name, language |-> found[i].language,
                            category |-> found[i].category,
                            version |-> OrDash(found[i].version),
                            description |-> OrDash(found[i].description),
                            crossLanguageId |-> found[i].crossLanguageId]],
         notFound  |-> NotFoundFrom(pkgs, names, 1),
         variantsSection |-> Len(variants) > 0,
         variants  |-> [i \in 1..Len(variants) |->
                           [name |-> variants[i].name, language |-> variants[i].language]]]

\* the value of compare as the data it renders: either the message "No
\* packages found for: names" or the table, one column per found package
\* (the install command and the repo, which the model's packages leave out,
\* are not rendered), the "Not found" list (rendered iff not empty) and the
\* "Other language variants" list, rendered iff not empty
compare(pkgs, names) ==
    IF Len(FoundFrom(pkgs, names, 1)) = 0
    THEN [noneFound |-> TRUE, names |-> names]
    ELSE compareWithoutNoneFound(pkgs, names)

\* the keys of a Map filled in the order of s: the distinct elements of s
\* in the order of their first occurrence
RECURSIVE FirstSeen(_, _)
FirstSeen(s, seen) ==
    IF s = <<>> THEN <<>>
    ELSE IF Head(s) \in seen THEN FirstSeen(Tail(s), seen)
         ELSE <<Head(s)>> \o FirstSeen(Tail(s), seen \cup {Head(s)})

\* the value of getEcosystemOverview as the data it renders: the two numbers
\* of the headline, one section per language in first-seen order with its
\* number of packages and one sub-section per category in first-seen order,
\* and the entries of "Cross-Language Packages" (rendered iff not empty):
\* the crossLanguageIds of more than one package, each with the languages of
\* its packages
getEcosystemOverview(pkgs) ==
    LET languages == FirstSeen([i \in 1..Len(pkgs) |-> pkgs[i].language], {})
        line(p) == [name |-> p.name, version |-> p.version,
                    description |-> IF p.description = <<>>
                                    THEN <<"(no description)">> ELSE p.description]
        section(lang) ==
            LET ofLang == Filter(LAMBDA p : p.language = lang, pkgs)
                categories == FirstSeen([i \in 1..Len(ofLang) |-> ofLang[i].category], {})
                sub(cat) == LET ofCat == Filter(LAMBDA p : p.category = cat, ofLang)
                            IN  [category |-> cat,
                                 entries  |-> [i \in 1..Len(ofCat) |-> line(ofCat[i])]]
            IN  [language |-> lang, size |-> Len(ofLang),
                 categories |-> [j \in 1..Len(categories) |-> sub(categories[j])]]
        ids == FirstSeen([i \in 1..Len(pkgs) |-> pkgs[i].crossLanguageId], {})
        group(id) == Filter(LAMBDA p : p.crossLanguageId = id, pkgs)
        multiLang == Filter(LAMBDA id : Len(group(id)) > 1, ids)
    IN  [count     |-> Len(pkgs),
         languages |-> Len(languages),
         sections  |-> [i \in 1..Len(languages) |-> section(languages[i])],
         crossLanguageSection |-> Len(multiLang) > 0,
         crossLanguage |-> [i \in 1..Len(multiLang) |->
                               [id |-> multiLang[i],
                                languages |-> [k \in 1..Len(group(multiLang[i])) |->
                                                  group(multiLang[i])[k].language]]]]

----------------------------------------------------------------------------
(* Tool handlers over the registry (index.ts) *)

\* a response text as the data it renders: its fixed wording, whether
\* EMPTY_REGISTRY_HINT (line 505) is appended to it, and the value rendered
\* into it, if any
Text(message, hint, body) == [message |-> message, hint |-> hint, body |-> body]

textResult(text) == [isError |-> FALSE, text |-> text]

\* resolvePackage without the test of registry.count of line 524
resolvePackageWithoutCountTest(pkgs, name) ==
    LET pkg == getByName(pkgs, name)
        suggestions == suggest(pkgs, name, DefaultLimit)
    IN  IF pkg # <<>> THEN [found |-> TRUE, pkg |-> pkg[1]]
        ELSE IF Len(suggestions) # 0
        THEN [found |-> FALSE,
              result |-> textResult(Text("Package not found. Did you mean:", FALSE,
                             [i \in 1..Len(suggestions) |-> suggestions[i].name]))]
        ELSE [found |-> FALSE,
              result |-> textResult(Text(
                  "Package not found. Use list_packages to see available packages.",
                  FALSE, name))]

\* resolvePackage (lines 520-533): the package, or the response of the tool
resolvePackage(pkgs, name) ==
    LET pkg == getByName(pkgs, name)
        suggestions == suggest(pkgs, name, DefaultLimit)
    IN  IF pkg # <<>> THEN [found |-> TRUE, pkg |-> pkg[1]]
        ELSE IF Len(pkgs) = 0
        THEN [found |-> FALSE,
              result |-> textResult(Text("Package not found.", TRUE, name))]
        ELSE IF Len(suggestions) # 0
        THEN [found |-> FALSE,
              result |-> textResult(Text("Package not found. Did you mean:", FALSE,
                             [i \in 1..Len(suggestions) |-> suggestions[i].name]))]
        ELSE [found |-> FALSE,
              result |-> textResult(Text(
                  "Package not found. Use list_packages to see available packages.",
                  FALSE, name))]

\* the handler of list_packages (lines 619-637)
list_packages(pkgs, query, language, category) ==
    LET results == search(pkgs, query, language, category)
    IN  IF Len(results) = 0
        THEN textResult(Text("No packages found matching the given criteria.",
                             Len(pkgs) = 0, <<>>))
        ELSE textResult(Text("", FALSE,
                 [i \in 1..Len(results) |->
                     [name |-> results[i].name, version |-> results[i].version,
                      language |-> results[i].language, category |-> results[i].category,
                      description |-> IF results[i].description = <<>>
                                      THEN <<"(no description)">>
                                      ELSE results[i].description]]))

\* the handler of get_ecosystem_overview (lines 704-713)
get_ecosystem_overview(pkgs) ==
    IF Len(pkgs) = 0
    THEN textResult(Text("No packages available.", TRUE, <<>>))
    ELSE textResult(Text("", FALSE, getEcosystemOverview(pkgs)))

\* the handler of compare_packages (lines 727-736)
compare_packages(pkgs, names) ==
    IF Len(pkgs) = 0
    THEN textResult(Text("Cannot compare packages.", TRUE, <<>>))
    ELSE textResult(Text("", FALSE, compare(pkgs, names)))

\* the handler of get_cross_language_coverage (lines 1151-1160)
get_cross_language_coverage(pkgs) ==
    IF Len(pkgs) = 0
    THEN textResult(Text("No packages available.", TRUE, <<>>))
    ELSE textResult(Text("", FALSE, getCrossLanguageCoverage(pkgs)))

\* the handler of get_dependency_graph (lines 1177-1191); a name that is
\* absent or empty is falsy
get_dependency_graph(pkgs, name) ==
    IF Len(pkgs) = 0
    THEN textResult(Text("No packages available.", TRUE, <<>>))
    ELSE IF name # <<>>
    THEN LET resolved == resolvePackage(pkgs, name)
         IN  IF ~resolved.found THEN resolved.result
             ELSE textResult(Text("", FALSE,
                      getReverseDependencies(pkgs, resolved.pkg.crossLanguageId)))
    ELSE textResult(Text("", FALSE, getDependencyGraph(pkgs)))

----------------------------------------------------------------------------
(* The registry as a state machine: load and the queries *)

\* the strings looked up with getByName: for every catalog package its name,
\* its dirName, its name without the scope, its name in upper case, its
\* dirName with underscores, and that with the zk_kit_ prefix; and three
\* strings of no package
Underscored(d) == ReplaceAll(d, "-", "_")
ZkKitUnderscorePrefix == <<"z","k","_","k","i","t","_">>

NameQueries ==
    UNION { { p.name, p.dirName, StripPrefix(p.name, Scope), toUpperCase(p.name),
              Underscored(p.dirName), ZkKitUnderscorePrefix \o Underscored(p.dirName) }
            : p \in Catalog }
    \cup { ZkKitPrefix \o DirImt, <<"z","z">>, <<>> }

\* the queries of search and suggest
TextQueries == { NoQuery, <<" ">>, <<"i","m","t">>, <<"L","e","a","n">>,
                 <<"l","e","a","n"," "," ","i","m","t">>, <<"s","o","l"," ","z","z">> }

\* the concepts asked of getReverseDependencies: those of the catalog, a
\* dependency that no package implements, and a string that is no concept
ConceptQueries == { DirLeanImt, DirLeanImtUnderscore, DirImt, DirUtils, <<"z","z">> }

\* the arguments of compare: no name, one name and two names, of a
\* TypeScript package, of the two Noir packages of one name, of a
\* dependency-free package and of no package
CompareNames == { Scope \o DirLeanImt, Underscored(DirLeanImt), DirImt, <<"z","z">> }
CompareArguments ==
    { <<>> } \cup { <<a>> : a \in CompareNames } \cup { <<a, b>> : a, b \in CompareNames }

\* the names of compare_packages: its schema asks for two names at least
ToolCompareArguments == { names \in CompareArguments : Len(names) >= 2 }

\* the names given to the tools: no name, a name, a dirName, an underscore
\* form, a part of a name (which suggest completes) and a string of nothing
ToolNames == { <<>>, Scope \o DirLeanImt, DirImt, Underscored(DirLeanImt),
               <<"l","e","a","n">>, <<"z","z">> }

LanguageFilters == { Absent, "solidity" }
CategoryFilters == { Absent, "merkle-trees" }

\* the limits of suggest: the default and the explicit ones
Limits == { DefaultLimit } \cup (0..MaxLimit)

InitRegistry ==
    /\ packages = <<>>
    /\ call = [op |-> "none"]
    /\ ret = <<>>

\* load(packages): the whole sequence is replaced
Load(pkgs) ==
    /\ packages' = pkgs
    /\ call' = [op |-> "ready"]
    /\ ret' = <<>>

\* main(): the registry is created and loaded once, at startup
Startup ==
    /\ call.op = "none"
    /\ \E pkgs \in RegistryContents : Load(pkgs)

\* the registry is loaded and no query is in progress
Ready == call.op = "ready"

GetByName(name) ==
    /\ Ready
    /\ call' = [op |-> "getByName", name |-> name]
    /\ ret' = getByName(packages, name)
    /\ UNCHANGED packages

Suggest(name, limit) ==
    /\ Ready
    /\ call' = [op |-> "suggest", name |-> name, limit |-> limit]
    /\ ret' = suggest(packages, name, limit)
    /\ UNCHANGED packages

\* this.packages after a search that filters and sorts the sequence itself
PackagesAfterSearchInPlace(pkgs, query, language, category) ==
    search(pkgs, query, language, category)

\* this.packages after search: line 59 copies the sequence, and the filters
\* and the sort of lines 61-88 work on the copy
PackagesAfterSearch(pkgs, query, language, category) == pkgs

Search(query, language, category) ==
    /\ Ready
    /\ call' = [op |-> "search", query |-> query, language |-> language, category |-> category]
    /\ ret' = search(packages, query, language, category)
    /\ packages' = PackagesAfterSearch(packages, query, language, category)

GetDependencyGraph ==
    /\ Ready
    /\ call' = [op |-> "getDependencyGraph"]
    /\ ret' = getDependencyGraph(packages)
    /\ UNCHANGED packages

GetReverseDependencies(id) ==
    /\ Ready
    /\ call' = [op |-> "getReverseDependencies", id |-> id]
    /\ ret' = getReverseDependencies(packages, id)
    /\ UNCHANGED packages

GetCrossLanguageCoverage ==
    /\ Ready
    /\ call' = [op |-> "getCrossLanguageCoverage"]
    /\ ret' = getCrossLanguageCoverage(packages)
    /\ UNCHANGED packages

Compare(names) ==
    /\ Ready
    /\ call' = [op |-> "compare", names |-> names]
    /\ ret' = compare(packages, names)
    /\ UNCHANGED packages

GetEcosystemOverview ==
    /\ Ready
    /\ call' = [op |-> "getEcosystemOverview"]
    /\ ret' = getEcosystemOverview(packages)
    /\ UNCHANGED packages

\* the tools of the server that read the registry only; a handler runs to
\* its return without a suspension, as one step
ListPackagesTool(query, language, category) ==
    /\ Ready
    /\ call' = [op |-> "list_packages", query |-> query, language |-> language,
                category |-> category]
    /\ ret' = list_packages(packages, query, language, category)
    /\ UNCHANGED packages

GetEcosystemOverviewTool ==
    /\ Ready
    /\ call' = [op |-> "get_ecosystem_overview"]
    /\ ret' = get_ecosystem_overview(packages)
    /\ UNCHANGED packages

ComparePackagesTool(names) ==
    /\ Ready
    /\ call' = [op |-> "compare_packages", names |-> names]
    /\ ret' = compare_packages(packages, names)
    /\ UNCHANGED packages

GetCrossLanguageCoverageTool ==
    /\ Ready
    /\ call' = [op |-> "get_cross_language_coverage"]
    /\ ret' = get_cross_language_coverage(packages)
    /\ UNCHANGED packages

GetDependencyGraphTool(name) ==
    /\ Ready
    /\ call' = [op |-> "get_dependency_graph", name |-> name]
    /\ ret' = get_dependency_graph(packages, name)
    /\ UNCHANGED packages

\* the first two statements of every handler that takes a package name
\* (get_package_readme, get_package_dependencies, get_package_source, ...):
\* resolvePackage, and the return of its response when the name resolves to
\* nothing; with a package the handler goes on to its collaborator
ResolvePackageInTool(name) ==
    /\ Ready
    /\ call' = [op |-> "resolvePackage", name |-> name]
    /\ ret' = resolvePackage(packages, name)
    /\ UNCHANGED packages

\* the caller has used the value returned; the next query may be issued
Return ==
    /\ call.op \notin {"none", "ready"}
    /\ call' = [op |-> "ready"]
    /\ ret' = <<>>
    /\ UNCHANGED packages

NextRegistry ==
    \/ Startup
    \/ \E name \in NameQueries : GetByName(name)
    \/ \E name \in TextQueries, limit \in Limits : Suggest(name, limit)
    \/ \E query \in TextQueries, language \in LanguageFilters, category \in CategoryFilters :
           Search(query, language, category)
    \/ GetDependencyGraph
    \/ \E id \in ConceptQueries : GetReverseDependencies(id)
    \/ GetCrossLanguageCoverage
    \/ \E names \in CompareArguments : Compare(names)
    \/ GetEcosystemOverview
    \/ \E query \in TextQueries, language \in LanguageFilters, category \in CategoryFilters :
           ListPackagesTool(query, language, category)
    \/ GetEcosystemOverviewTool
    \/ \E names \in ToolCompareArguments : ComparePackagesTool(names)
    \/ GetCrossLanguageCoverageTool
    \/ \E name \in ToolNames : GetDependencyGraphTool(name)
    \/ \E name \in ToolNames : ResolvePackageInTool(name)
    \/ Return

----------------------------------------------------------------------------
(* TTLCache (cache.ts) *)

\* the keys and the values of the cache entries
Keys == { "k1", "k2" }
Values == { "v1", "v2" }

\* new Map(): no entry
EmptyStore == <<>>

\* Map.delete over a set of keys
Without(st, gone) == [k \in (DOMAIN st) \ gone |-> st[k]]

\* the test of lines 17, 27 and 36: Date.now() > entry.expiresAt
Expired(entry, t) == t > entry.expiresAt

\* the loop of lines 26-28 and 35-37: every expired entry is deleted
Sweep(st, t) == Without(st, { k \in DOMAIN st : Expired(st[k], t) })

\* get (lines 14-22): the store after the call and the value returned,
\* undefined being <<>> and a value v being <<v>>
get(st, t, key) ==
    IF key \notin DOMAIN st THEN [store |-> st, value |-> <<>>]
    ELSE IF Expired(st[key], t) THEN [store |-> Without(st, {key}), value |-> <<>>]
    ELSE [store |-> st, value |-> <<st[key].value>>]

\* set that keeps the expiry of an entry it overwrites
setKeepingExpiry(st, t, ttl, key, value) ==
    LET swept == Sweep(st, t)
    IN  MapSet(swept, key,
               [value |-> value,
                expiresAt |-> IF key \in DOMAIN swept THEN swept[key].expiresAt ELSE t + ttl])

\* set without the sweep of lines 26-28
setWithoutSweep(st, t, ttl, key, value) ==
    MapSet(st, key, [value |-> value, expiresAt |-> t + ttl])

\* set (lines 24-31): the store after the call
set(st, t, ttl, key, value) ==
    MapSet(Sweep(st, t), key, [value |-> value, expiresAt |-> t + ttl])

\* the getter size (lines 33-39)
size(st, t) == [store |-> Sweep(st, t), value |-> Cardinality(DOMAIN Sweep(st, t))]

\* has (lines 41-43)
has(st, t, key) == [store |-> get(st, t, key).store, value |-> get(st, t, key).value # <<>>]

\* clear (lines 45-47)
clear(st) == EmptyStore

InitCache ==
    /\ now = 0
    /\ ttlMs = 0
    /\ store = EmptyStore
    /\ lastSet = [k \in Keys |-> <<>>]
    /\ cacheCall = [op |-> "none"]
    /\ cacheRet = <<>>

\* new TTLCache(ttlMs)
Construct(ttl) ==
    /\ cacheCall.op = "none"
    /\ ttlMs' = ttl
    /\ store' = EmptyStore
    /\ cacheCall' = [op |-> "new", at |-> now, before |-> store]
    /\ UNCHANGED <<now, lastSet, cacheRet>>

\* the cache has been constructed
Constructed == cacheCall.op # "none"

\* Date.now() advances by a millisecond
Tick ==
    /\ Constructed
    /\ now < MaxNow
    /\ now' = now + 1
    /\ UNCHANGED <<ttlMs, store, lastSet, cacheCall, cacheRet>>

CacheGet(key) ==
    /\ Constructed
    /\ store' = get(store, now, key).store
    /\ cacheRet' = get(store, now, key).value
    /\ cacheCall' = [op |-> "get", key |-> key, at |-> now, before |-> store]
    /\ UNCHANGED <<now, ttlMs, lastSet>>

CacheSet(key, value) ==
    /\ Constructed
    /\ store' = set(store, now, ttlMs, key, value)
    /\ cacheRet' = <<>>
    /\ lastSet' = [lastSet EXCEPT ![key] = << [at |-> now, value |-> value] >>]
    /\ cacheCall' = [op |-> "set", key |-> key, value |-> value, at |-> now, before |-> store]
    /\ UNCHANGED <<now, ttlMs>>

CacheSize ==
    /\ Constructed
    /\ store' = size(store, now).store
    /\ cacheRet' = <<size(store, now).value>>
    /\ cacheCall' = [op |-> "size", at |-> now, before |-> store]
    /\ UNCHANGED <<now, ttlMs, lastSet>>

CacheHas(key) ==
    /\ Constructed
    /\ store' = has(store, now, key).store
    /\ cacheRet' = <<has(store, now, key).value>>
    /\ cacheCall' = [op |-> "has", key |-> key, at |-> now, before |-> store]
    /\ UNCHANGED <<now, ttlMs, lastSet>>

CacheClear ==
    /\ Constructed
    /\ store' = clear(store)
    /\ cacheRet' = <<>>
    /\ lastSet' = [k \in Keys |-> <<>>]
    /\ cacheCall' = [op |-> "clear", at |-> now, before |-> store]
    /\ UNCHANGED <<now, ttlMs>>

NextCache ==
    \/ \E ttl \in 0..MaxTtl : Construct(ttl)
    \/ Tick
    \/ \E key \in Keys : CacheGet(key)
    \/ \E key \in Keys, value \in Values : CacheSet(key, value)
    \/ CacheSize
    \/ \E key \in Keys : CacheHas(key)
    \/ CacheClear

----------------------------------------------------------------------------
(* A caching tool handler: search_issues (index.ts) *)

\* what the collaborator searchIssues resolves with: no issue, or issues
Issues == { <<>>, <<"issue-1">> }

\* what it rejects with: an Error with a message, or a value that is no Error
Rejections == { [isErrorObject |-> TRUE, message |-> "rate limit"],
                [isErrorObject |-> FALSE, value |-> "aborted"] }

\* errorResult (lines 515-518)
errorResult(e) ==
    LET msg == IF e.isErrorObject THEN e.message ELSE e.value
    IN  [isError |-> TRUE, text |-> <<"Error: ", msg>>]

\* the cache key of a call with neither state, package, language nor repo:
\* `${query}:open:`, one key per query (line 837)
CacheKeyOf(query) == query

\* the text rendered of the issues found (line 842)
RenderIssues(query, issues) ==
    IF Len(issues) = 0 THEN <<"No issues found for", query>>
    ELSE <<"issues">> \o issues

\* the bucket after the fetch, with the rendered text stored unless it is the
\* negative one
CacheAfterFetchUnlessNegative(st, t, ttl, key, issues) ==
    IF Len(issues) = 0 THEN st ELSE set(st, t, ttl, key, RenderIssues(key, issues))

\* the bucket after the fetch has resolved (line 843)
CacheAfterFetch(st, t, ttl, key, issues) == set(st, t, ttl, key, RenderIssues(key, issues))

\* the bucket after the fetch, with the error text stored under the key
CacheAfterRejectionStoringError(st, t, ttl, key, e) == set(st, t, ttl, key, errorResult(e).text)

\* the bucket after the fetch has rejected: the catch of lines 847-849
\* writes nothing
CacheAfterRejection(st, t, ttl, key, e) == st

Idle == [state |-> "idle"]

InitTools ==
    /\ calls = <<>>
    /\ rejectedLast = [k \in Keys |-> FALSE]
    /\ lastReturn = [state |-> "none"]

\* createServer (lines 565-576): the bucket is constructed with its TTL
CreateServer(ttl) ==
    /\ calls = <<>>
    /\ cacheCall.op = "none"
    /\ ttlMs' = ttl
    /\ store' = EmptyStore
    /\ calls' = [c \in 1..MaxCalls |-> Idle]
    /\ UNCHANGED <<now, lastSet, cacheCall, cacheRet, rejectedLast, lastReturn>>

\* the server is created and the response of the last call to return, if
\* any, has been sent to the client
ServerCreated == calls # <<>> /\ lastReturn.state = "none"

\* the response of the call that has returned is sent to the client
ResponseSent ==
    /\ lastReturn.state = "returned"
    /\ lastReturn' = [state |-> "none"]
    /\ UNCHANGED <<now, ttlMs, store, lastSet, cacheCall, cacheRet, calls, rejectedLast>>

\* Date.now() advances by a millisecond while the server runs
ToolsTick ==
    /\ ServerCreated
    /\ now < MaxNow
    /\ now' = now + 1
    /\ UNCHANGED <<ttlMs, store, lastSet, cacheCall, cacheRet, calls, rejectedLast, lastReturn>>

\* the response of a call and what is remembered of the call with it: its
\* key, the text stored under the key and unexpired when the call started
\* (live), whether the last call of the key before it had ended rejected,
\* whether it called the collaborator, what the collaborator rejected with
\* and whether the rejection left the bucket as it was
Returned(started, fetched, response, rejectedWith, bucketUnchanged) ==
    [state |-> "returned", key |-> started.key, live |-> started.live,
     afterRejection |-> started.afterRejection, fetched |-> fetched,
     result |-> response, rejectedWith |-> rejectedWith,
     bucketUnchanged |-> bucketUnchanged]

\* the handler of search_issues up to its first suspension (lines 817-841):
\* the bucket is read; a hit is returned at once, a miss calls searchIssues
\* and suspends the handler
SearchIssuesStarts(c, query) ==
    /\ ServerCreated
    /\ calls[c].state = "idle"
    /\ \A b \in 1..(c - 1) : calls[b].state # "idle"
    /\ LET key == CacheKeyOf(query)
           cached == get(store, now, key)
           started == [state |-> "awaiting", key |-> key,
                       live |-> IF lastSet[key] # <<>> /\ now - lastSet[key][1].at <= ttlMs
                                THEN << lastSet[key][1].value >> ELSE <<>>,
                       afterRejection |-> rejectedLast[key]]
       IN  /\ store' = cached.store
           /\ IF cached.value # <<>>
              THEN /\ lastReturn' = Returned(started, FALSE, textResult(cached.value[1]),
                                             <<>>, TRUE)
                   /\ UNCHANGED calls
              ELSE /\ calls' = [calls EXCEPT ![c] = started]
                   /\ UNCHANGED lastReturn
           /\ rejectedLast' = [rejectedLast EXCEPT ![key] = FALSE]
    /\ UNCHANGED <<now, ttlMs, lastSet, cacheCall, cacheRet>>

\* searchIssues resolves (lines 841-846): the text is rendered, stored and
\* returned
SearchIssuesResolves(c, issues) ==
    /\ ServerCreated
    /\ calls[c].state = "awaiting"
    /\ LET key == calls[c].key
       IN  /\ store' = CacheAfterFetch(store, now, ttlMs, key, issues)
           /\ lastSet' = [lastSet EXCEPT
                  ![key] = << [at |-> now, value |-> RenderIssues(key, issues)] >>]
           /\ rejectedLast' = [rejectedLast EXCEPT ![key] = FALSE]
           /\ lastReturn' = Returned(calls[c], TRUE,
                                     textResult(RenderIssues(key, issues)), <<>>, TRUE)
           /\ calls' = [calls EXCEPT ![c] = Idle]
    /\ UNCHANGED <<now, ttlMs, cacheCall, cacheRet>>

\* searchIssues rejects (lines 847-849): the handler returns errorResult
SearchIssuesRejects(c, e) ==
    /\ ServerCreated
    /\ calls[c].state = "awaiting"
    /\ LET key == calls[c].key
           after == CacheAfterRejection(store, now, ttlMs, key, e)
       IN  /\ store' = after
           /\ rejectedLast' = [rejectedLast EXCEPT ![key] = TRUE]
           /\ lastReturn' = Returned(calls[c], TRUE, errorResult(e), <<e>>, after = store)
           /\ calls' = [calls EXCEPT ![c] = Idle]
    /\ UNCHANGED <<now, ttlMs, lastSet, cacheCall, cacheRet>>

\* clearCaches (lines 1779-1791)
ClearCaches ==
    /\ ServerCreated
    /\ store' = clear(store)
    /\ lastSet' = [k \in Keys |-> <<>>]
    /\ UNCHANGED <<now, ttlMs, cacheCall, cacheRet, calls, rejectedLast, lastReturn>>

NextTools ==
    \/ \E ttl \in 0..MaxTtl : CreateServer(ttl)
    \/ ToolsTick
    \/ \E c \in 1..MaxCalls, query \in Keys : SearchIssuesStarts(c, query)
    \/ \E c \in 1..MaxCalls, issues \in Issues : SearchIssuesResolves(c, issues)
    \/ \E c \in 1..MaxCalls, e \in Rejections : SearchIssuesRejects(c, e)
    \/ ResponseSent
    \/ ClearCaches

----------------------------------------------------------------------------
(* githubFetch (github.ts) *)

DecimalDigits == <<"0","1","2","3","4","5","6","7","8","9">>

\* `${n}` for a number n >= 0
RECURSIVE DecimalOf(_)
DecimalOf(n) ==
    IF n < 10 THEN << DecimalDigits[n + 1] >>
    ELSE DecimalOf(n \div 10) \o << DecimalDigits[(n % 10) + 1] >>

\* the URLs githubFetch is called with: a directory listing and a search
Urls == { <<"h","t","t","p","s",":","/","/","a","p","i",".","g","i","t","h","u","b",".","c","o","m","/","r","e","p","o","s","/","z","k","-","k","i","t","/","z","k","-","k","i","t","/","c","o","n","t","e","n","t","s","/","p","a","c","k","a","g","e","s">>,
          <<"h","t","t","p","s",":","/","/","a","p","i",".","g","i","t","h","u","b",".","c","o","m","/","s","e","a","r","c","h","/","i","s","s","u","e","s","?","q","=","i","m","t","&","p","e","r","_","p","a","g","e","=","2","0">> }

\* the statuses fetch resolves with: redirects are followed, so that a
\* response is a success, a client error or a server error
Statuses == {200, 403, 404, 500, 503}

\* the header x-ratelimit-remaining of a response: absent, or "0"
RateLimitRemaining == { <<>>, << <<"0">> >> }

\* the header x-ratelimit-reset of a response: absent, or an epoch second
RateLimitReset == { <<>>, << <<"1","7","0","6","0","0","0","0","0","0">> >> }

\* the responses fetch resolves with
FetchResponses == [status : Statuses, remaining : RateLimitRemaining, reset : RateLimitReset]

\* what fetch rejects with: a network failure (TypeError), or the abort of
\* AbortSignal.timeout (DOMException), both instances of Error
NetworkErrors == { [isErrorObject |-> TRUE, message |-> <<"f","e","t","c","h"," ","f","a","i","l","e","d">>],
                   [isErrorObject |-> TRUE,
                    message |-> <<"T","h","e"," ","o","p","e","r","a","t","i","o","n"," ","w","a","s"," ","a","b","o","r","t","e","d"," ","d","u","e"," ","t","o"," ","t","i","m","e","o","u","t">>] }

\* Response.ok
Ok(resp) == resp.status \in 200..299

\* new Error(message)
Error(message) == [isErrorObject |-> TRUE, message |-> message]

\* lines 36-38: new Date(parseInt(reset, 10) * 1000).toISOString(), or
\* "unknown" without the header
ResetTime(reset) ==
    IF reset = <<>> THEN <<"u","n","k","n","o","w","n">>
    ELSE IF reset[1] = <<"1","7","0","6","0","0","0","0","0","0">> THEN <<"2","0","2","4","-","0","1","-","2","3","T","0","8",":","5","3",":","2","0",".","0","0","0","Z">>
    ELSE <<"u","n","k","n","o","w","n">>

\* line 39
RateLimitError(resp) ==
    Error(<<"G","i","t","H","u","b"," ","A","P","I"," ","r","a","t","e"," ","l","i","m","i","t"," ","e","x","c","e","e","d","e","d","."," ","R","e","s","e","t","s"," ","a","t"," ">> \o ResetTime(resp.reset)
          \o <<"."," ","S","e","t"," ","G","I","T","H","U","B","_","T","O","K","E","N"," ","f","o","r"," ","5","0","0","0"," ","r","e","q","/","h","r",".">>)

\* lines 43 and 46: `GitHub API ${resp.status}: ${url}`
StatusError(resp, url) ==
    Error(<<"G","i","t","H","u","b"," ","A","P","I"," ">> \o DecimalOf(resp.status) \o <<":"," ">> \o url)

\* the try block of one attempt once fetch has resolved (lines 34-48): the
\* response is returned, the attempt is given up for the next one, or an
\* error is thrown into the catch
TryBlock(resp, attempt, url) ==
    IF ~Ok(resp)
    THEN IF resp.status = 403 /\ resp.remaining = << <<"0">> >>
         THEN [kind |-> "throw", error |-> RateLimitError(resp)]
         ELSE IF resp.status >= 500 /\ attempt < 1
              THEN [kind |-> "continue", lastError |-> << StatusError(resp, url) >>]
              ELSE [kind |-> "throw", error |-> StatusError(resp, url)]
    ELSE [kind |-> "return", resp |-> resp]

\* the catch block retrying whatever was thrown
CatchWithoutMessageTest(e, attempt) ==
    [kind |-> IF attempt < 1 THEN "continue" ELSE "fallthrough",
     lastError |-> << e >>]

\* the catch block (lines 49-56): rate limit and client errors are thrown
\* on, any other error is kept as lastError
Catch(e, attempt) ==
    IF e.isErrorObject /\ (Includes(e.message, <<"r","a","t","e"," ","l","i","m","i","t">>) \/ Includes(e.message, <<"G","i","t","H","u","b"," ","A","P","I"," ","4">>))
    THEN [kind |-> "throw", error |-> e]
    ELSE [kind |-> IF attempt < 1 THEN "continue" ELSE "fallthrough",
          lastError |-> << e >>]

\* no call of githubFetch in progress
NoFetch == [pc |-> "idle"]

InitFetch == gh = NoFetch

\* githubFetch is called (lines 25-33): the first attempt calls fetch
GithubFetch(url) ==
    /\ gh.pc = "idle"
    /\ gh' = [pc |-> "fetch", url |-> url, attempt |-> 0, lastError |-> <<>>,
              fetches |-> <<>>]

\* the call ends: it resolves with a response or rejects with an error
Ended(g, settled, outcome) ==
    [pc |-> "done", url |-> g.url, attempt |-> g.attempt, lastError |-> g.lastError,
     fetches |-> Append(g.fetches, settled), outcome |-> outcome]

\* the end of a loop round that was given up or fell through (lines 30 and
\* 58): attempt++, then the next round sleeps, or the loop ends and
\* lastError is thrown
NextRound(g, settled, lastError) ==
    IF g.attempt + 1 < 2
    THEN [pc |-> "delay", url |-> g.url, attempt |-> g.attempt + 1,
          lastError |-> lastError, fetches |-> Append(g.fetches, settled)]
    ELSE Ended([g EXCEPT !.attempt = g.attempt + 1, !.lastError = lastError],
               settled, [kind |-> "error", error |-> lastError[1]])

\* what the catch block leaves of the call
Caught(g, settled, e) ==
    LET c == Catch(e, g.attempt)
    IN  IF c.kind = "throw"
        THEN Ended(g, settled, [kind |-> "error", error |-> c.error])
        ELSE NextRound(g, settled, c.lastError)

\* fetch resolves with a response (lines 33-48)
FetchResolves(resp) ==
    /\ gh.pc = "fetch"
    /\ LET settled == [kind |-> "response", resp |-> resp]
           t == TryBlock(resp, gh.attempt, gh.url)
       IN  gh' = CASE t.kind = "return" ->
                        Ended(gh, settled, [kind |-> "response", resp |-> t.resp])
                   [] t.kind = "continue" -> NextRound(gh, settled, t.lastError)
                   [] t.kind = "throw" -> Caught(gh, settled, t.error)

\* fetch rejects (lines 33 and 49-56)
FetchRejects(e) ==
    /\ gh.pc = "fetch"
    /\ gh' = Caught(gh, [kind |-> "rejection", error |-> e], e)

\* the timer of the second attempt fires (line 31) and fetch is called
TimerFires ==
    /\ gh.pc = "delay"
    /\ gh' = [gh EXCEPT !.pc = "fetch"]

\* the caller has taken the response or the error
GithubFetchReturns ==
    /\ gh.pc = "done"
    /\ gh' = NoFetch

\* the steps that the runtime takes by itself: fetch settles (at the latest
\* when AbortSignal.timeout aborts it) and the timer fires
FetchProgress ==
    \/ \E resp \in FetchResponses : FetchResolves(resp)
    \/ \E e \in NetworkErrors : FetchRejects(e)
    \/ TimerFires

NextFetch ==
    \/ \E url \in Urls : GithubFetch(url)
    \/ \E resp \in FetchResponses : FetchResolves(resp)
    \/ \E e \in NetworkErrors : FetchRejects(e)
    \/ TimerFires
    \/ GithubFetchReturns

----------------------------------------------------------------------------
(* Specifications *)

\* the server at start: no fetch settled, the registry constructed empty
Init == InitDiscovery /\ InitRegistry /\ InitCache /\ InitTools /\ InitFetch /\ InitNaming

\* the discovery run, the registry not yet loaded
SpecDiscovery == Init /\ [][NextDiscovery /\ UNCHANGED <<registryVars, cacheVars, toolVars, fetchVars, namingVars>>]_vars

\* the registry, loaded and queried
SpecRegistry == Init /\ [][NextRegistry /\ UNCHANGED <<discoveryVars, cacheVars, toolVars, fetchVars, namingVars>>]_vars

\* one TTLCache, constructed and used while time passes
SpecCache == Init /\ [][NextCache /\ UNCHANGED <<discoveryVars, registryVars, toolVars, fetchVars, namingVars>>]_vars

\* the server's caching tool: overlapping calls, the clock and clearCaches
SpecTools == Init /\ [][NextTools /\ UNCHANGED <<discoveryVars, registryVars, fetchVars, namingVars>>]_vars

\* the naming rules applied to directory names
SpecNaming ==
    Init /\ [][NextNaming /\ UNCHANGED <<discoveryVars, registryVars, cacheVars, toolVars, fetchVars>>]_vars

\* one caller of githubFetch after another; every fetch settles and the
\* timer of the retry fires
SpecFetch ==
    /\ Init
    /\ [][NextFetch /\ UNCHANGED <<discoveryVars, registryVars, cacheVars, toolVars, namingVars>>]_vars
    /\ WF_vars(FetchProgress /\ UNCHANGED <<discoveryVars, registryVars, cacheVars, toolVars, namingVars>>)

----------------------------------------------------------------------------
(* Claims about the discovery pipeline (checked under SpecDiscovery) *)

\* the manifest fetches <<r, j>> that were fulfilled, of listings that were
Survivors ==
    { rj \in Repos \X (1..(MaxTotalDirs + 1)) :
        /\ listing[rj[1]].status = "fulfilled"
        /\ rj[2] <= Len(manifest[rj[1]])
        /\ manifest[rj[1]][rj[2]].status = "fulfilled" }

\* the package of directory rj[2] of repository rj[1]
PackageOf(rj) ==
    MkPackage(listing[rj[1]].dirs[rj[2]], REPOS[rj[1]].language, manifest[rj[1]][rj[2]].value)

\* C1: discoverAllPackages never rejects, whatever listings fail; what it
\* resolves with holds packages only of repositories whose listing
\* succeeded, holds every surviving package of each of them, and is empty
\* when every listing failed.
C1_DiscoveryNeverRejects ==
    /\ pc # "rejected"
    /\ pc = "resolved" =>
        /\ \A i \in 1..Len(result) : \E rj \in Survivors : result[i] = PackageOf(rj)
        /\ \A rj \in Survivors : \E i \in 1..Len(result) : result[i] = PackageOf(rj)
        /\ Len(result) = Cardinality(Survivors)
        /\ (\A r \in Repos : listing[r].status = "rejected") => result = <<>>

\* C1 witness: a run resolved with packages although some listing failed
C1_Witness ==
    /\ pc = "resolved"
    /\ \E r \in Repos : listing[r].status = "rejected"
    /\ \E r \in Repos : listing[r].status = "fulfilled"
    /\ result # <<>>

\* the packages of the result that come from directory j of repository r
FromDirectory(r, j) ==
    { i \in 1..Len(result) :
        /\ result[i].language = REPOS[r].language
        /\ result[i].dirName = listing[r].dirs[j] }

\* C2: in a repository whose listing succeeded, every directory whose
\* manifest fetch succeeded yields exactly one package and every directory
\* whose manifest fetch failed yields none, whatever happened to its
\* siblings and to the other repositories.
C2_ManifestFailureIsolated ==
    pc = "resolved" =>
        \A r \in Repos : listing[r].status = "fulfilled" =>
            \A j \in 1..Len(manifest[r]) :
                Cardinality(FromDirectory(r, j)) =
                    IF manifest[r][j].status = "fulfilled" THEN 1 ELSE 0

\* C2 witness: a resolved run in which a manifest fetch failed and the
\* fetch of a sibling directory succeeded
C2_Witness ==
    /\ pc = "resolved"
    /\ \E r \in Repos : \E j, k \in 1..Len(manifest[r]) :
        /\ manifest[r][j].status = "rejected"
        /\ manifest[r][k].status = "fulfilled"
        /\ FromDirectory(r, k) # {}

\* the precedence of the languages as the claim lists them
LanguagePrecedence == <<"typescript", "circom", "solidity", "noir", "rust">>

LanguageRank(l) == CHOOSE i \in 1..Len(LanguagePrecedence) : LanguagePrecedence[i] = l

\* the place of the directory of package p in the listing of its repository
ListingIndex(p) ==
    LET r == CHOOSE x \in Repos : REPOS[x].language = p.language
    IN  CHOOSE j \in 1..Len(listing[r].dirs) : listing[r].dirs[j] = p.dirName

\* C3: the result is ordered by language precedence, then by name, and two
\* packages of one language with the same name stand in the order of the
\* listing: the order is a function of the outcomes of the fetches and not
\* of the order in which they settled.
C3_OrderIndependentOfCompletion ==
    pc = "resolved" =>
        \A i, j \in 1..Len(result) : i < j =>
            LET a == result[i]
                b == result[j]
            IN  \/ LanguageRank(a.language) < LanguageRank(b.language)
                \/ /\ a.language = b.language
                   /\ localeCompare(a.name, b.name) < 0
                \/ /\ a.language = b.language
                   /\ localeCompare(a.name, b.name) = 0
                   /\ ListingIndex(a) < ListingIndex(b)

\* C3 witness: a resolved run with two packages of one repository whose
\* manifest fetches settled in the reverse of the listing order
C3_Witness ==
    /\ pc = "resolved"
    /\ Len(result) = 2
    /\ \E r \in Repos :
        /\ settleOrder = << <<r, 2>>, <<r, 1>> >>
        /\ manifest[r][1].status = "fulfilled"
        /\ manifest[r][2].status = "fulfilled"

----------------------------------------------------------------------------
(* Claims about the names in a discovery run (checked under SpecDiscovery) *)

\* C24: in every sequence returned by discoverAllPackages a package name is
\* unique within its language: two packages of one language, built from two
\* distinct subdirectory names of the repository, never have the same name.
C24_NameUniqueWithinLanguage ==
    pc = "resolved" =>
        \A i, j \in 1..Len(result) :
            /\ i # j
            /\ result[i].language = result[j].language
            /\ result[i].dirName # result[j].dirName
            => result[i].name # result[j].name

----------------------------------------------------------------------------
(* Claims about the registry (checked under SpecRegistry) *)

\* the name without a leading scope
Unscoped(name) == StripPrefix(name, Scope)

\* the strings under which C4 looks package p up
LookupsOf(p) ==
    { p.name, p.dirName, toUpperCase(p.name) }
    \cup (IF StartsWith(p.name, Scope) THEN { Unscoped(p.name) } ELSE {})

\* p matches q by name, by name without scope or by dirName, whatever the case
MatchesDirectly(p, q) ==
    \/ toLowerCase(p.name) = toLowerCase(q)
    \/ Unscoped(toLowerCase(p.name)) = toLowerCase(q)
    \/ toLowerCase(p.dirName) = toLowerCase(q)

\* C4 as stated: for every package P of the registry, getByName of P.name,
\* of P.dirName, of P.name without its scope and of P.name in upper case
\* returns P itself.
C4_LookupReturnsThePackageItself ==
    call.op = "getByName" =>
        \A i \in 1..Len(packages) :
            call.name \in LookupsOf(packages[i]) => ret = <<packages[i]>>

\* C4 as amended: each of these lookups returns a package of the registry,
\* never not-found, that matches the string by name, by name without scope
\* or by dirName, whatever the case; it returns P itself whenever P is the
\* only package of the registry matching the string in one of these ways.
C4_LookupReturnsAMatch ==
    call.op = "getByName" =>
        \A i \in 1..Len(packages) :
            call.name \in LookupsOf(packages[i]) =>
                /\ Len(ret) = 1
                /\ ret[1] \in Range(packages)
                /\ MatchesDirectly(ret[1], call.name)
                /\ (\A q \in Range(packages) : MatchesDirectly(q, call.name) => q = packages[i])
                       => ret = <<packages[i]>>

\* C4 witness: a lookup of the dirName of a package of the registry that
\* returned another package, one of the same dirName
C4_Witness ==
    /\ call.op = "getByName"
    /\ \E i, j \in 1..Len(packages) :
        /\ i # j
        /\ call.name = packages[i].dirName
        /\ packages[j].dirName = packages[i].dirName
        /\ ret = <<packages[j]>>

\* the first package of pkgs, in registry order, among the places M
FirstOf(pkgs, M) == pkgs[CHOOSE i \in M : \A j \in M : i <= j]

\* the resolution C5 describes: the places matching at each of the four
\* steps, and the first place of the earliest step that has one
ResolutionOf(pkgs, q) ==
    LET lower == toLowerCase(q)
        dashed == ReplaceAll(lower, "_", "-")
        M1 == { i \in 1..Len(pkgs) : toLowerCase(pkgs[i].name) = lower }
        M2 == { i \in 1..Len(pkgs) : Unscoped(toLowerCase(pkgs[i].name)) = lower }
        M3 == { i \in 1..Len(pkgs) : toLowerCase(pkgs[i].dirName) = lower }
        M4 == { i \in 1..Len(pkgs) :
                  toLowerCase(pkgs[i].dirName) \in { dashed, StripPrefix(dashed, ZkKitPrefix) } }
    IN  IF M1 # {} THEN <<FirstOf(pkgs, M1)>>
        ELSE IF M2 # {} THEN <<FirstOf(pkgs, M2)>>
        ELSE IF M3 # {} THEN <<FirstOf(pkgs, M3)>>
        ELSE IF M4 # {} THEN <<FirstOf(pkgs, M4)>>
        ELSE <<>>

\* C5: getByName returns the first package, in registry order, of the
\* earliest of the four steps (name, name without scope, dirName, dirName
\* against the normalized query) that has a match, and not-found only when
\* no step has one.
C5_ResolutionOrder ==
    call.op = "getByName" => ret = ResolutionOf(packages, call.name)

\* C5 witness: a lookup answered by a later package of the registry because
\* it matches at an earlier step than a package standing before it
C5_Witness ==
    /\ call.op = "getByName"
    /\ \E i, j \in 1..Len(packages) :
        /\ i < j
        /\ toLowerCase(packages[i].name) # toLowerCase(call.name)
        /\ toLowerCase(packages[i].dirName) = toLowerCase(call.name)
        /\ Unscoped(toLowerCase(packages[j].name)) = toLowerCase(call.name)
        /\ ret = <<packages[j]>>
        /\ packages[i] # packages[j]

\* the two strings under which C6 looks up a package of dirName d
UnderscoreLookupsOf(d) == { Underscored(d), ZkKitUnderscorePrefix \o Underscored(d) }

\* p matches q at one of the four steps of getByName
MatchesAtSomeStep(p, q) ==
    LET dashed == ReplaceAll(toLowerCase(q), "_", "-")
    IN  \/ MatchesDirectly(p, q)
        \/ toLowerCase(p.dirName) \in { dashed, StripPrefix(dashed, ZkKitPrefix) }

\* C6 as stated: for a package of dirName d in the registry, getByName of d
\* with '_' for every '-', and of that string prefixed with zk_kit_, both
\* return that package.
C6_UnderscoreLookupReturnsThePackage ==
    call.op = "getByName" =>
        \A i \in 1..Len(packages) :
            call.name \in UnderscoreLookupsOf(packages[i].dirName) => ret = <<packages[i]>>

\* C6 as amended: when d contains no '_', both lookups return a package of
\* the registry, never not-found, that matches the string at one of the
\* steps of getByName, also when the registry holds no Noir or Rust package;
\* they return that package itself whenever it is the only package of the
\* registry matching the string at any step.
C6_UnderscoreLookupResolves ==
    call.op = "getByName" =>
        \A i \in 1..Len(packages) :
            ( /\ ~Includes(packages[i].dirName, <<"_">>)
              /\ call.name \in UnderscoreLookupsOf(packages[i].dirName) ) =>
                /\ Len(ret) = 1
                /\ ret[1] \in Range(packages)
                /\ MatchesAtSomeStep(ret[1], call.name)
                /\ (\A q \in Range(packages) : MatchesAtSomeStep(q, call.name) => q = packages[i])
                       => ret = <<packages[i]>>

\* C6 witness: the zk_kit_ form of a hyphenated dirName resolved to its
\* package in a registry without any Noir or Rust package
C6_Witness ==
    /\ call.op = "getByName"
    /\ \A i \in 1..Len(packages) : packages[i].language \notin {"noir", "rust"}
    /\ \E i \in 1..Len(packages) :
        /\ Includes(packages[i].dirName, <<"-">>)
        /\ call.name = ZkKitUnderscorePrefix \o Underscored(packages[i].dirName)
        /\ ret = <<packages[i]>>

\* the lower-cased terms of a query
TermsOf(query) == Range(SplitTerms(toLowerCase(query)))

\* term t occurs in the name, the dirName or the description of p
TermMatches(p, t) ==
    \/ Includes(toLowerCase(p.name), t)
    \/ Includes(toLowerCase(p.dirName), t)
    \/ Includes(toLowerCase(p.description), t)

\* the packages C7 includes: the filters given are equal, and every term of
\* a given query occurs in one of the three fields
IncludedBySearch(p, c) ==
    /\ c.language # Absent => p.language = c.language
    /\ c.category # Absent => p.category = c.category
    /\ c.query # NoQuery => \A t \in TermsOf(c.query) : TermMatches(p, t)

\* C7: search returns exactly the packages of the registry that pass the
\* language filter, pass the category filter and, when a query is given,
\* have every term of the query in their name, dirName or description.
C7_SearchReturnsExactlyTheMatches ==
    call.op = "search" =>
        /\ Range(ret) \subseteq Range(packages)
        /\ \A p \in Range(packages) : p \in Range(ret) <=> IncludedBySearch(p, call)

\* the place of package p in the registry (its packages are distinct)
PlaceOf(p) == CHOOSE i \in 1..Len(packages) : packages[i] = p

\* the score C8 describes: over the terms, 3 for the name, plus 2 for the
\* dirName, plus 1 for the description
RECURSIVE TotalScore(_, _)
TotalScore(p, terms) ==
    IF terms = <<>> THEN 0
    ELSE (IF Includes(toLowerCase(p.name), Head(terms)) THEN 3 ELSE 0)
         + (IF Includes(toLowerCase(p.dirName), Head(terms)) THEN 2 ELSE 0)
         + (IF Includes(toLowerCase(p.description), Head(terms)) THEN 1 ELSE 0)
         + TotalScore(p, Tail(terms))

\* C8: without a query the result of search is in registry order; with a
\* query it is in descending order of the total score, and packages of
\* equal score keep their registry order.
C8_SearchOrder ==
    call.op = "search" =>
        /\ Range(ret) \subseteq Range(packages)
        /\ \A i, j \in 1..Len(ret) : i < j =>
            LET terms == SplitTerms(toLowerCase(call.query))
                si == TotalScore(ret[i], terms)
                sj == TotalScore(ret[j], terms)
            IN  IF call.query = NoQuery
                THEN PlaceOf(ret[i]) < PlaceOf(ret[j])
                ELSE \/ si > sj
                     \/ si = sj /\ PlaceOf(ret[i]) < PlaceOf(ret[j])

\* C8 witness: a search with a query that moved a package of higher score
\* before a package standing before it in the registry, and kept two
\* packages of equal score in registry order
C8_Witness ==
    /\ call.op = "search"
    /\ call.query # NoQuery
    /\ Len(ret) = 3
    /\ PlaceOf(ret[1]) > PlaceOf(ret[2])
    /\ TotalScore(ret[2], SplitTerms(toLowerCase(call.query)))
           = TotalScore(ret[3], SplitTerms(toLowerCase(call.query)))
    /\ PlaceOf(ret[2]) < PlaceOf(ret[3])

\* the places of the registry whose package has every term of the query in
\* its name or in its dirName
Qualifying(query) ==
    { i \in 1..Len(packages) :
        \A t \in TermsOf(query) :
            \/ Includes(toLowerCase(packages[i].name), t)
            \/ Includes(toLowerCase(packages[i].dirName), t) }

\* C9: suggest returns the first limit qualifying packages in registry
\* order: never more than limit, and none when some term of the query
\* occurs in no package.
C9_SuggestFirstQualifying ==
    call.op = "suggest" =>
        LET Q == Qualifying(call.name)
        IN  /\ Len(ret) <= call.limit
            /\ Len(ret) = (IF Cardinality(Q) < call.limit THEN Cardinality(Q) ELSE call.limit)
            /\ \A k \in 1..Len(ret) :
                \E i \in Q : /\ ret[k] = packages[i]
                             /\ Cardinality({ j \in Q : j < i }) = k - 1
            /\ (\E t \in TermsOf(call.name) :
                    \A p \in Range(packages) :
                        /\ ~Includes(toLowerCase(p.name), t)
                        /\ ~Includes(toLowerCase(p.dirName), t))
                   => ret = <<>>

\* C9 witness: a suggest that cut a longer list of qualifying packages down
\* to its limit, leaving out a package that does not qualify
C9_Witness ==
    /\ call.op = "suggest"
    /\ call.limit > 0
    /\ Len(ret) = call.limit
    /\ Cardinality(Qualifying(call.name)) > call.limit
    /\ Cardinality(Qualifying(call.name)) < Len(packages)

\* the concepts of a section of the report
ConceptsIn(section) == { section[i].concept : i \in 1..Len(section) }

\* the concepts some package of the registry lists as a dependency
DependedOn == UNION { Range(p.zkKitDependencies) : p \in Range(packages) }

\* the concepts a package of which has a non-empty dependency list
Depending == { p.crossLanguageId : p \in { q \in Range(packages) : q.zkKitDependencies # <<>> } }

\* C10: every concept (crossLanguageId or dependency) stands in exactly one
\* of the three sections: Foundational iff some package lists it as a
\* dependency, otherwise Leaf iff a package of it has dependencies, otherwise
\* Independent; so the middle of a chain A -> B -> C is Foundational, not Leaf.
C10_ClassificationPriority ==
    (call.op = "getDependencyGraph" /\ packages # <<>>) =>
        LET F == ConceptsIn(ret.foundational)
            L == ConceptsIn(ret.leaf)
            I == ConceptsIn(ret.independent)
            Concepts == { p.crossLanguageId : p \in Range(packages) } \cup DependedOn
        IN  /\ ~ret.sentinel
            /\ F \cup L \cup I = Concepts
            /\ Len(ret.foundational) + Len(ret.leaf) + Len(ret.independent) = Cardinality(Concepts)
            /\ \A c \in Concepts :
                /\ c \in F <=> c \in DependedOn
                /\ c \in L <=> (c \notin DependedOn /\ c \in Depending)
                /\ c \in I <=> (c \notin DependedOn /\ c \notin Depending)
            /\ \A a, b \in Range(packages) :
                ( /\ b.crossLanguageId \in Range(a.zkKitDependencies)
                  /\ b.zkKitDependencies # <<>> )
                    => (b.crossLanguageId \in F /\ b.crossLanguageId \notin L)

\* C10 witness: the graph of a registry holding a chain A -> B -> C of three
\* distinct concepts, with B reported as foundational and A as leaf
C10_Witness ==
    /\ call.op = "getDependencyGraph"
    /\ \E a, b \in Range(packages) :
        /\ a.crossLanguageId # b.crossLanguageId
        /\ b.crossLanguageId \in Range(a.zkKitDependencies)
        /\ b.zkKitDependencies # <<>>
        /\ b.crossLanguageId \notin Range(b.zkKitDependencies)
        /\ a.crossLanguageId \notin Range(b.zkKitDependencies)
        /\ b.crossLanguageId \in ConceptsIn(ret.foundational)
        /\ a.crossLanguageId \in ConceptsIn(ret.leaf)

----------------------------------------------------------------------------
(* Claims about the single-node dependency view (checked under SpecRegistry) *)

\* the concepts a package of which names id among its zkKitDependencies
DependentConcepts(id) ==
    { p.crossLanguageId : p \in { q \in Range(packages) : id \in Range(q.zkKitDependencies) } }

\* C11: getReverseDependencies(id) lists under "Depended On By" exactly the
\* distinct concepts that have a package naming id in zkKitDependencies, each
\* once, in ascending order of concept id (the order of localeCompare), and
\* states their number as "N package(s)"; when there is none it renders the
\* sentence "No other ZK-Kit packages depend on id" and no such section.
C11_ReverseDependencies ==
    call.op = "getReverseDependencies" =>
        LET D == DependentConcepts(call.id)
            listed == ret.dependedOnBy
        IN  /\ { listed[i].concept : i \in 1..Len(listed) } = D
            /\ Len(listed) = Cardinality(D)
            /\ \A i, j \in 1..Len(listed) :
                   i < j => localeCompare(listed[i].concept, listed[j].concept) < 0
            /\ ret.dependedOnBySection <=> D # {}
            /\ ret.dependedOnBySection => ret.count = Cardinality(D)
            /\ ret.noDependentsSentence <=> D = {}

\* C11 witness: a concept with two dependent concepts, one of them with two
\* packages naming it, the registry holding them in descending order
C11_Witness ==
    /\ call.op = "getReverseDependencies"
    /\ Len(ret.dependedOnBy) = 2
    /\ ret.count = 2
    /\ Len(packages) = 3
    /\ \A i \in 1..3 : call.id \in Range(packages[i].zkKitDependencies)
    /\ packages[1].crossLanguageId = ret.dependedOnBy[2].concept

\* C12: on an empty registry getReverseDependencies(id) returns the
\* "No packages available." sentinel, for every id.
C12_ReverseDependenciesSentinel ==
    (call.op = "getReverseDependencies" /\ packages = <<>>) => ret.sentinel

----------------------------------------------------------------------------
(* Claims about the coverage matrix (checked under SpecRegistry) *)

\* C13: getCrossLanguageCoverage returns exactly "No packages available." on
\* an empty registry; on every non-empty registry the number of slots it
\* divides by is at least 1 (concepts times languages), so that the
\* percentage is a number, never NaN.
C13_CoverageSentinelAndSlots ==
    call.op = "getCrossLanguageCoverage" =>
        /\ packages = <<>> => ret = NoPackagesAvailable
        /\ packages # <<>> =>
            /\ ~ret.sentinel
            /\ ret.totalSlots >= 1
            /\ ret.totalSlots = ret.concepts * Len(ret.languages)
            /\ ret.concepts = Cardinality({ p.crossLanguageId : p \in Range(packages) })
            /\ Len(ret.languages) = Cardinality({ p.language : p \in Range(packages) })
            /\ ret.coverage # NaN
            /\ ret.coverage[1] \in 0..100

\* C13 witness: the coverage of the empty registry has been asked for
C13_Witness ==
    /\ call.op = "getCrossLanguageCoverage"
    /\ packages = <<>>
    /\ ret = NoPackagesAvailable

----------------------------------------------------------------------------
(* Claims about compare (checked under SpecRegistry) *)

\* the packages the names of a compare call resolve to
FoundSet(names) ==
    UNION { Range(getByName(packages, names[i])) : i \in 1..Len(names) }

\* the registry packages that share a crossLanguageId with a found package
\* and are not found themselves, in registry order, as they are rendered
OtherVariants(names) ==
    LET F == FoundSet(names)
        others == Filter(LAMBDA p : /\ p \notin F
                                     /\ \E f \in F : f.crossLanguageId = p.crossLanguageId,
                         packages)
    IN  [i \in 1..Len(others) |-> [name |-> others[i].name, language |-> others[i].language]]

\* C14: when compare(names) finds a set F of packages, its "Other language
\* variants" list is exactly the registry packages that share a
\* crossLanguageId with a member of F and are not members of F, in registry
\* order; the section is absent when there is no such package.
C14_OtherLanguageVariants ==
    (call.op = "compare" /\ ~ret.noneFound) =>
        /\ ret.variants = OtherVariants(call.names)
        /\ ret.variantsSection <=> OtherVariants(call.names) # <<>>

----------------------------------------------------------------------------
(* Claims about the registry as a whole (checked under SpecRegistry) *)

\* the operations of the registry that return a pre-rendered report
ReportOperations ==
    { "getCrossLanguageCoverage", "getDependencyGraph", "getReverseDependencies" }

\* C15: on every registry content, the empty one included, and for every
\* argument, each query returns a value of its kind and does not throw; the
\* negative outcomes are values: getByName returns not-found when no package
\* matches, search and suggest return the empty sequence on the empty
\* registry, and compare returns the "No packages found" message exactly
\* when none of its names resolves.
C15_QueriesReturnValues ==
    /\ call.op = "getByName" =>
        /\ ret \in { <<>> } \cup { <<p>> : p \in Range(packages) }
        /\ (\A p \in Range(packages) : ~MatchesAtSomeStep(p, call.name)) => ret = <<>>
    /\ call.op \in { "search", "suggest" } =>
        /\ Range(ret) \subseteq Range(packages)
        /\ packages = <<>> => ret = <<>>
    /\ call.op = "compare" =>
        /\ ret.noneFound <=> FoundSet(call.names) = {}
        /\ ret.noneFound => ret = [noneFound |-> TRUE, names |-> call.names]
        /\ ~ret.noneFound => Len(ret.columns) + Len(ret.notFound) = Len(call.names)
    /\ call.op = "getEcosystemOverview" =>
        /\ ret.count = Len(packages)
        /\ ret.languages = Cardinality({ p.language : p \in Range(packages) })
        /\ Len(ret.sections) = ret.languages
    /\ call.op \in ReportOperations => ret.sentinel \in BOOLEAN

\* C15 witness: compare on the empty registry, answered with the message
C15_Witness ==
    /\ call.op = "compare"
    /\ packages = <<>>
    /\ Len(call.names) = 2
    /\ ret.noneFound

----------------------------------------------------------------------------
(* Claims about the tool handlers over the registry (checked under SpecRegistry) *)

\* the tools that answer from the registry alone
RegistryTools ==
    { "list_packages", "get_ecosystem_overview", "compare_packages",
      "get_cross_language_coverage", "get_dependency_graph" }

\* the response of the tool call in progress, if it has returned one: a tool
\* whose package name resolved goes on and has no response yet
Responses ==
    IF call.op \in RegistryTools THEN { ret }
    ELSE IF call.op = "resolvePackage" /\ ~ret.found THEN { ret.result }
    ELSE {}

\* C16: when the registry is empty, list_packages, get_ecosystem_overview,
\* compare_packages, get_cross_language_coverage, get_dependency_graph and
\* every tool that resolves a package name answer with the empty-registry
\* hint; when the registry is not empty no response contains the hint.
C16_EmptyRegistryHint ==
    /\ (call.op \in RegistryTools \cup { "resolvePackage" } /\ packages = <<>>) =>
           /\ Responses # {}
           /\ \A r \in Responses : r.text.hint /\ ~r.isError
    /\ packages # <<>> => \A r \in Responses : ~r.text.hint

\* C16 witness: a tool resolving a package name has answered with the hint
C16_Witness ==
    /\ call.op = "resolvePackage"
    /\ packages = <<>>
    /\ call.name # <<>>
    /\ ret.result.text.hint

----------------------------------------------------------------------------
(* Claims about TTLCache (checked under SpecCache) *)

\* the value get(k) is to return at time t: that of the most recent set of k
\* since the last clear, if at most ttlMs milliseconds have passed since it
LiveValue(k, t) ==
    IF lastSet[k] # <<>> /\ t - lastSet[k][1].at <= ttlMs
    THEN << lastSet[k][1].value >>
    ELSE <<>>

\* C17: get(k) returns the value of the most recent set(k, v) if and only if
\* at most ttlMs milliseconds have passed since that set and no clear
\* happened since, and undefined otherwise; a later set of the key restarts
\* the time to live, and a get (or has) does not extend it.
C17_GetReturnsLiveValue ==
    /\ cacheCall.op = "get" => cacheRet = LiveValue(cacheCall.key, cacheCall.at)
    /\ cacheCall.op = "has" =>
           cacheRet = << LiveValue(cacheCall.key, cacheCall.at) # <<>> >>

\* C17 witness: a get exactly ttlMs > 0 milliseconds after the last set of
\* its key returned the value, and the other key, set earlier, has lapsed
C17_Witness ==
    /\ cacheCall.op = "get"
    /\ ttlMs > 0
    /\ cacheRet # <<>>
    /\ cacheCall.at = lastSet[cacheCall.key][1].at + ttlMs
    /\ \E k \in Keys \ { cacheCall.key } :
           lastSet[k] # <<>> /\ LiveValue(k, cacheCall.at) = <<>>

\* the keys of the store found by the last call whose entries had not
\* expired at the time of that call
Unexpired == { k \in DOMAIN cacheCall.before : ~Expired(cacheCall.before[k], cacheCall.at) }

\* C18: after a set the store holds no entry that was expired at the time of
\* the set, whatever its key; a get that finds its entry expired removes it;
\* size counts the unexpired entries only; after clear the size is 0 and
\* every get returns undefined.
C18_SweepAndEviction ==
    /\ cacheCall.op = "set" =>
           /\ DOMAIN store = Unexpired \cup { cacheCall.key }
           /\ \A k \in DOMAIN store : ~Expired(store[k], cacheCall.at)
    /\ (cacheCall.op = "get" /\ cacheCall.key \in (DOMAIN cacheCall.before) \ Unexpired) =>
           /\ cacheCall.key \notin DOMAIN store
           /\ cacheRet = <<>>
    /\ cacheCall.op = "size" => cacheRet = << Cardinality(Unexpired) >>
    /\ cacheCall.op = "clear" =>
           /\ store = EmptyStore
           /\ size(store, now).value = 0
           /\ \A k \in Keys : get(store, now, k).value = <<>>

\* C18 witness: a set has removed the expired entry of another key
C18_Witness ==
    /\ cacheCall.op = "set"
    /\ \E k \in (DOMAIN cacheCall.before) \ { cacheCall.key } :
           /\ Expired(cacheCall.before[k], cacheCall.at)
           /\ k \notin DOMAIN store

----------------------------------------------------------------------------
(* Claims about the caching tools (checked under SpecTools) *)

\* C19: once a call has stored its rendered text under a cache key, every
\* later call with that key that starts at most ttlMs milliseconds after the
\* store and before clearCaches returns the text stored under the key and
\* does not call the collaborator; so it is for the negative text "No issues
\* found" as well.
C19_StoredResultIsReused ==
    /\ \A c \in DOMAIN calls : calls[c].state = "awaiting" => calls[c].live = <<>>
    /\ (lastReturn.state = "returned" /\ lastReturn.live # <<>>) =>
           /\ ~lastReturn.fetched
           /\ lastReturn.result = textResult(lastReturn.live[1])
           /\ ~lastReturn.result.isError

\* C19 witness: a call has returned the stored negative text of its key
\* without calling the collaborator
C19_Witness ==
    /\ lastReturn.state = "returned"
    /\ ~lastReturn.fetched
    /\ lastReturn.live = << RenderIssues(lastReturn.key, <<>>) >>
    /\ lastReturn.result = textResult(RenderIssues(lastReturn.key, <<>>))

\* the message errorResult renders for a rejection
MessageOf(e) == IF e.isErrorObject THEN e.message ELSE e.value

----------------------------------------------------------------------------
(* Claims about the two views of the dependency graph (checked under SpecRegistry) *)

\* the concept-level graph that the loop of getDependencyGraph builds of the
\* registry
GraphOfRegistry == BuildGraph(EmptyGraph, packages, 1)

\* the packages of a concept
PackagesOf(id) == { p \in Range(packages) : p.crossLanguageId = id }

\* C25: getReverseDependencies(id) is the single-node view of the graph that
\* getDependencyGraph builds: for every concept id, the concepts under
\* "Depends On" are the out-neighbours of id and the concepts under
\* "Depended On By" are the in-neighbours of id in that graph, in which the
\* edges of all packages (languages) sharing one crossLanguageId are unioned
\* onto one node.
C25_SingleNodeView ==
    call.op = "getReverseDependencies" =>
        LET g == GraphOfRegistry
        IN  /\ ConceptsIn(ret.dependsOn) = MapGet(g.dependsOn, call.id)
            /\ ConceptsIn(ret.dependedOnBy) = MapGet(g.dependedBy, call.id)
            /\ MapGet(g.dependsOn, call.id) =
                   UNION { Range(p.zkKitDependencies) : p \in PackagesOf(call.id) }
            /\ MapGet(g.dependedBy, call.id) =
                   { c \in g.allConcepts :
                         \E p \in PackagesOf(c) : call.id \in Range(p.zkKitDependencies) }

\* C25 witness: a concept with packages in two languages that differ in
\* their dependencies, with an out-neighbour and an in-neighbour
C25_Witness ==
    /\ call.op = "getReverseDependencies"
    /\ \E p, q \in PackagesOf(call.id) :
           /\ p.language # q.language
           /\ Range(p.zkKitDependencies) # Range(q.zkKitDependencies)
    /\ ret.dependsOn # <<>>
    /\ ret.dependedOnBy # <<>>

\* the ids that occur as a crossLanguageId or as a dependency
ConceptsOfRegistry == { p.crossLanguageId : p \in Range(packages) } \cup DependedOn

\* the concept-level edges: a concept and a dependency that a package of
\* the concept declares
EdgesOfRegistry ==
    UNION { { << p.crossLanguageId, d >> : d \in Range(p.zkKitDependencies) } :
            p \in Range(packages) }

\* C26: the summary line of getDependencyGraph reports as "N concepts" the
\* number of distinct ids that occur as a crossLanguageId or as a dependency
\* and as "M internal dependencies" the number of distinct concept-level
\* edges: an edge declared by several language variants of one concept is
\* counted once.
C26_SummaryLine ==
    (call.op = "getDependencyGraph" /\ packages # <<>>) =>
        /\ ret.concepts = Cardinality(ConceptsOfRegistry)
        /\ ret.totalDeps = Cardinality(EdgesOfRegistry)

\* C26 witness: one edge declared by two language variants of a concept and
\* counted once
C26_Witness ==
    /\ call.op = "getDependencyGraph"
    /\ \E i, j \in 1..Len(packages) :
           /\ i # j
           /\ packages[i].crossLanguageId = packages[j].crossLanguageId
           /\ Range(packages[i].zkKitDependencies) \cap Range(packages[j].zkKitDependencies) # {}
    /\ ret.totalDeps = 1
    /\ ret.concepts = 2

\* the dependency ids of the registry that are the crossLanguageId of no
\* package
Dangling == DependedOn \ { p.crossLanguageId : p \in Range(packages) }

\* the entry of a concept in a section, if it has one
EntriesOf(section, c) == { section[i] : i \in { k \in 1..Len(section) : section[k].concept = c } }

\* C27, as claimed: a dependency id that is the crossLanguageId of no package
\* is absorbed into getDependencyGraph as a new isolated node: it is listed
\* under Independent Packages.
C27_DanglingListedIndependent ==
    (call.op = "getDependencyGraph" /\ packages # <<>>) =>
        \A d \in Dangling : d \in ConceptsIn(ret.independent)

\* C27, as the code has it: a dependency id that is the crossLanguageId of no
\* package is absorbed into getDependencyGraph as a node of its own: it is
\* counted among the concepts and, having dependents, listed once under
\* Foundational Packages, with no language, with the concepts that depend on
\* it, and in no other section; nothing marks it as dangling.
C27_DanglingListedFoundational ==
    (call.op = "getDependencyGraph" /\ packages # <<>>) =>
        \A d \in Dangling :
            /\ ~ret.sentinel
            /\ ret.concepts = Cardinality(ConceptsOfRegistry)
            /\ d \notin ConceptsIn(ret.independent)
            /\ d \notin ConceptsIn(ret.leaf)
            /\ \E e \in EntriesOf(ret.foundational, d) :
                   /\ EntriesOf(ret.foundational, d) = {e}
                   /\ e.languages = <<>>
                   /\ Range(e.usedBy) =
                          { p.crossLanguageId :
                                p \in { q \in Range(packages) : d \in Range(q.zkKitDependencies) } }
                   /\ DOMAIN e = {"concept", "languages", "usedBy", "dependsOn"}

\* C27 witness: the graph of a registry with a dependency that no package
\* implements
C27_Witness ==
    /\ call.op = "getDependencyGraph"
    /\ Dangling # {}
    /\ \E d \in Dangling : d \in ConceptsIn(ret.foundational)

----------------------------------------------------------------------------
(* Claims about the numbers of the coverage matrix (checked under SpecRegistry) *)

\* the distinct pairs of a crossLanguageId and a language in the registry
SlotsFilled == { << p.crossLanguageId, p.language >> : p \in Range(packages) }

\* the languages a concept has a package in
LanguagesWith(c) == { p.language : p \in PackagesOf(c) }

\* C28: for every non-empty registry getCrossLanguageCoverage reports as
\* filled slots the number of distinct (crossLanguageId, language) pairs
\* present and as total slots the number of distinct concepts times the
\* number of distinct languages, with 1 <= filled <= total, and every concept
\* stands in exactly one of the lists "Multi-Language Concepts" (two or more
\* languages) and "Single-Language Only" (exactly one language).
C28_SlotsAndLists ==
    (call.op = "getCrossLanguageCoverage" /\ packages # <<>>) =>
        LET concepts == { p.crossLanguageId : p \in Range(packages) }
            languages == { p.language : p \in Range(packages) }
            multi == ConceptsIn(ret.multiLang)
            single == ConceptsIn(ret.singleLang)
        IN  /\ ret.filled = Cardinality(SlotsFilled)
            /\ ret.totalSlots = Cardinality(concepts) * Cardinality(languages)
            /\ 1 <= ret.filled
            /\ ret.filled <= ret.totalSlots
            /\ multi \cup single = concepts
            /\ multi \cap single = {}
            /\ Len(ret.multiLang) + Len(ret.singleLang) = Cardinality(concepts)
            /\ \A c \in concepts :
                   /\ c \in multi <=> Cardinality(LanguagesWith(c)) >= 2
                   /\ c \in single <=> Cardinality(LanguagesWith(c)) = 1

\* C28 witness: a matrix with a concept in each of the two lists and with
\* slots that are not filled
C28_Witness ==
    /\ call.op = "getCrossLanguageCoverage"
    /\ packages # <<>>
    /\ ret.multiLang # <<>>
    /\ ret.singleLang # <<>>
    /\ ret.filled < ret.totalSlots

----
----------------------------------------------------------------------------
(* Claims about the registry over time (checked under SpecRegistry) *)

\* what a query or a handler returns, given the package sequence
AnswerOf(c, pkgs) ==
    CASE c.op = "getByName" -> getByName(pkgs, c.name)
      [] c.op = "suggest" -> suggest(pkgs, c.name, c.limit)
      [] c.op = "search" -> search(pkgs, c.query, c.language, c.category)
      [] c.op = "getDependencyGraph" -> getDependencyGraph(pkgs)
      [] c.op = "getReverseDependencies" -> getReverseDependencies(pkgs, c.id)
      [] c.op = "getCrossLanguageCoverage" -> getCrossLanguageCoverage(pkgs)
      [] c.op = "compare" -> compare(pkgs, c.names)
      [] c.op = "getEcosystemOverview" -> getEcosystemOverview(pkgs)
      [] c.op = "list_packages" -> list_packages(pkgs, c.query, c.language, c.category)
      [] c.op = "get_ecosystem_overview" -> get_ecosystem_overview(pkgs)
      [] c.op = "compare_packages" -> compare_packages(pkgs, c.names)
      [] c.op = "get_cross_language_coverage" -> get_cross_language_coverage(pkgs)
      [] c.op = "get_dependency_graph" -> get_dependency_graph(pkgs, c.name)
      [] c.op = "resolvePackage" -> resolvePackage(pkgs, c.name)

Success(f) == f.kind = "response" /\ f.resp.status \in 200..299
ClientError(f) == f.kind = "response" /\ f.resp.status \in 400..499
ServerError(f) == f.kind = "response" /\ f.resp.status \in 500..599
RateLimited(f) ==
    f.kind = "response" /\ f.resp.status = 403 /\ f.resp.remaining = << <<"0">> >>
NetworkError(f) == f.kind = "rejection"

\* the attempts of a call: never more than two; a second one only after a
\* 5xx response or a network error; at the end, two of them after these,
\* one and an error after a 4xx response or a rate-limited 403, and a
\* successful one is the last and its response is the result
AttemptsOfGithubFetch ==
    gh.pc # "idle" =>
        /\ Len(gh.fetches) <= 2
        /\ gh.pc \in {"fetch", "delay"} /\ Len(gh.fetches) = 1 =>
               ServerError(gh.fetches[1]) \/ NetworkError(gh.fetches[1])
        /\ gh.pc = "done" =>
               /\ Len(gh.fetches) >= 1
               /\ gh.outcome.kind \in {"response", "error"}
               /\ ServerError(gh.fetches[1]) \/ NetworkError(gh.fetches[1]) =>
                      Len(gh.fetches) = 2
               /\ ClientError(gh.fetches[1]) \/ RateLimited(gh.fetches[1]) =>
                      /\ Len(gh.fetches) = 1
                      /\ gh.outcome.kind = "error"
               /\ \A i \in 1..Len(gh.fetches) :
                      Success(gh.fetches[i]) =>
                          /\ i = Len(gh.fetches)
                          /\ gh.outcome = [kind |-> "response", resp |-> gh.fetches[i].resp]

\* C21: githubFetch makes at most two fetch attempts per call and every call
\* ends with a response or an error: a 5xx response or a network error on
\* the first attempt is retried exactly once, a 4xx response or a
\* rate-limited 403 fails after exactly one attempt, and a successful
\* attempt returns without any further attempt.
C21_AtMostTwoAttempts ==
    /\ []AttemptsOfGithubFetch
    /\ (gh.pc # "idle") ~> (gh.pc = "done")

\* a call that got a 5xx response, was retried and ended with the response
\* of the second attempt
C21_Witness ==
    /\ gh.pc = "done"
    /\ Len(gh.fetches) = 2
    /\ ServerError(gh.fetches[1])
    /\ Success(gh.fetches[2])
    /\ gh.outcome.kind = "response"

----------------------------------------------------------------------------
(* Claims about overlapping calls of a caching tool (checked under SpecTools) *)

\* the calls suspended in the collaborator fetch
Awaiting == { c \in DOMAIN calls : calls[c].state = "awaiting" }

\* C30: memoization of external calls also holds under interleaving: when
\* two calls of the caching tool with the same cache key overlap, the second
\* starting while the first is suspended in its collaborator fetch, the
\* collaborator is called only once for that key: no two calls are
\* suspended in a collaborator fetch for one key at a time.
C30_OneFetchPerKeyUnderInterleaving ==
    \A a, b \in Awaiting : a # b => calls[a].key # calls[b].key

----------------------------------------------------------------------------
(* Claims about the naming rules (checked under SpecNaming) *)

\* s.split("-"): the parts of s between hyphens, empty parts included
RECURSIVE HyphenPartsFrom(_, _, _)
HyphenPartsFrom(s, i, cur) ==
    IF i > Len(s) THEN << cur >>
    ELSE IF s[i] = "-" THEN << cur >> \o HyphenPartsFrom(s, i + 1, <<>>)
         ELSE HyphenPartsFrom(s, i + 1, Append(cur, s[i]))

HyphenParts(s) == HyphenPartsFrom(s, 1, <<>>)

\* the parts of kw are consecutive whole parts of dirName
OccursAsToken(kw, dirName) ==
    LET k == HyphenParts(kw)
        d == HyphenParts(dirName)
    IN  \E i \in 0..(Len(d) - Len(k)) : SubSeq(d, i + 1, i + Len(k)) = k

\* the order of the rules
RuleOrder == << "merkle-trees", "cryptography", "access-control", "identity", "math" >>

KeywordsOf(category) ==
    UNION { CATEGORY_RULES[i].keywords :
                i \in { j \in 1..Len(CATEGORY_RULES) : CATEGORY_RULES[j].category = category } }

\* the places in RuleOrder of the rules with a keyword that is a token of dirName
RulesHit(dirName) ==
    { i \in 1..Len(RuleOrder) : \E kw \in KeywordsOf(RuleOrder[i]) : OccursAsToken(kw, dirName) }

\* C22: inferCategory(dirName) returns one of the six categories: the
\* category of the first rule, in the order merkle-trees, cryptography,
\* access-control, identity, math, with a keyword that occurs in dirName as a
\* whole hyphen-delimited token, and "other" when no rule has one; a keyword
\* inside a larger token does not count.
C22_FirstRuleWithWholeToken ==
    naming.op = "inferCategory" =>
        LET hits == RulesHit(naming.dirName)
        IN  /\ naming.ret \in Category
            /\ hits = {} => naming.ret = "other"
            /\ hits # {} =>
                   naming.ret = RuleOrder[CHOOSE i \in hits : \A j \in hits : i <= j]

\* a name with tokens of two rules got the category of the earlier rule
C22_Witness ==
    /\ naming.op = "inferCategory"
    /\ Cardinality(RulesHit(naming.dirName)) >= 2
    /\ naming.ret = RuleOrder[CHOOSE i \in RulesHit(naming.dirName) :
                                  \A j \in RulesHit(naming.dirName) : i <= j]

\* the template of a language applied to a directory name
TemplateName(language, d) ==
    CASE language = "typescript" -> <<"@","z","k","-","k","i","t","/">> \o d
      [] language = "circom"     -> <<"@","z","k","-","k","i","t","/">> \o d \o <<".","c","i","r","c","o","m">>
      [] language = "solidity"   -> <<"@","z","k","-","k","i","t","/">> \o d \o <<".","s","o","l">>
      [] language = "noir"       -> [i \in 1..Len(d) |-> IF d[i] = "-" THEN "_" ELSE d[i]]
      [] language = "rust"       -> <<"z","k","-","k","i","t","-">> \o d

\* the entries of the override table for a language and a directory name
OverrideEntries(language, d) ==
    { o \in NAME_OVERRIDES : o.language = language /\ o.dirName = d }

\* C23: for every dirName and each of the 5 languages, deriveName returns
\* the language's template applied to dirName, except where the override
\* table has an entry for (language, dirName): then it returns the override
\* value verbatim.
C23_TemplateOrOverride ==
    naming.op = "deriveName" =>
        LET entries == OverrideEntries(naming.language, naming.dirName)
        IN  IF entries # {}
            THEN \E o \in entries : naming.ret = o.name
            ELSE naming.ret = TemplateName(naming.language, naming.dirName)

====
